---- MODULE Spec2Model ----
(***************************************************************************)
(* Wirefish: TCP port scanner and ICMP traceroute engine.                  *)
(*                                                                         *)
(* The module models                                                       *)
(*   - tracer_run / tracer_append / traceroute_free (tracer.c)             *)
(*   - icmp_build_echo / icmp_parse_response (tracer/icmp.c)               *)
(*   - net_resolve / net_tcp_connect / net_set_ttl / net_icmp_raw_socket   *)
(*     (net.c)                                                             *)
(*   - scanner_run, whose source file is not part of the tree and which is *)
(*     therefore taken from section 4.4 of the specification.              *)
(*                                                                         *)
(* SpecTrace runs one call of tracer_run, SpecScan one call of scanner_run, *)
(* SpecCodec one call of a function of tracer/icmp.c and SpecNet one call  *)
(* of net_resolve or net_tcp_connect, on an input drawn from a bounded     *)
(* set.                                                                    *)
(***************************************************************************)
EXTENDS Integers, Sequences, FiniteSets, TLC

VARIABLES
    cfg,        \* CommandLine: ttl_start, ttl_max, ports_from, ports_to
    \* ---- tracer_run ----
    t_pc,       \* position of tracer_run
    t_ret,      \* its return value (0, -1), 1 while it has not returned
    out,        \* TraceRoute *out: rows, len, cap
    ttl,        \* loop variable of tracer_run
    sockfd,     \* descriptor held by tracer_run (-1: none)
    sock,       \* the raw socket in the kernel: state, ip_ttl (64 until set),
                \* opens, closes
    tstart,     \* send timestamp of the current hop
    clock,      \* wall clock read by now_ms()
    sel,        \* result of the last select()
    rxq,        \* receive queue of the raw socket: <<>> or <<datagram>>
    sent,       \* history: every sendto() call and whether it succeeded
    t_env,      \* history: what the resolver and socket() answered
    t_types,    \* history: icmp_type and datagram of every appended hop
    t_calls,    \* history: number of net_set_ttl calls
    t_freed,    \* number of traceroute_free calls made by the consumer
    \* ---- scanner_run ----
    s_pc,       \* position of scanner_run
    s_ret,      \* its return value (0, -1), 1 while it has not returned
    table,      \* ScanTable *out: rows, len, cap
    port,       \* loop variable of scanner_run
    s_host,     \* behaviour of the scanned host: "mixed" or one fixed outcome
    s_log,      \* history: one entry per net_tcp_connect call
    s_fds,      \* history: sockets opened / closed by the scan
    \* ---- one call of a function of icmp.c or net.c ----
    k_pc,       \* "input" before the call, "done" after it
    k_in,       \* the arguments of the call
    k_res,      \* what the call returned and stored
    \* ---- monitor_run ----
    m_pc,       \* position of monitor_run
    m_arg,      \* its arguments: out and iface NULL or not, interval, duration
    m_ret,      \* its return value (0, -1), 1 while it has not returned
    running,    \* static volatile int running
    series,     \* MonitorSeries *out: samples, len, cap
    rx_ring,    \* RingBuffer *rx_ring
    tx_ring,    \* RingBuffer *tx_ring
    m_loc,      \* locals: prev_rx, prev_tx, prev_time, end_time, curr_time
    m_env,      \* wall clock, interface counters, whether the handlers are
                \* installed
    m_hist      \* history: stop requested, samples appended since, rates
                \* pushed, outcome of the last iteration or call

vars == <<cfg, t_pc, t_ret, out, ttl, sockfd, sock, tstart, clock, sel, rxq,
          sent, t_env, t_types, t_calls, t_freed, s_pc, s_ret, table, port, s_host,
          s_log, s_fds, k_pc, k_in, k_res, m_pc, m_arg, m_ret, running, series,
          rx_ring, tx_ring, m_loc, m_env, m_hist>>

tvars == <<t_pc, t_ret, out, ttl, sockfd, sock, tstart, clock, sel, rxq,
           sent, t_env, t_types, t_calls, t_freed>>

svars == <<s_pc, s_ret, table, port, s_host, s_log, s_fds>>

kvars == <<k_pc, k_in, k_res>>

mvars == <<m_pc, m_arg, m_ret, running, series, rx_ring, tx_ring, m_loc, m_env,
           m_hist>>

----------------------------------------------------------------------------
(* Bounds of the model *)

MaxTtl == 2          \* TTL bounds are drawn from 1..MaxTtl
MaxElapsed == 1      \* milliseconds that pass during one wait
MaxSpan == 3         \* ports in a scan of a host with mixed behaviour
GrowSpan == 101      \* ports in a scan of a host that answers uniformly
MaxBufLen == 6       \* longest buffer handed to icmp_checksum
MaxPayload == 2      \* longest payload handed to icmp_build_echo
MaxCandidates == 3   \* longest list of addresses getaddrinfo produces
MaxTime == 3         \* seconds the wall clock of the monitor can reach
MaxBytes == 2        \* bytes the interface can have received
MaxSamples == 3      \* rates one run of the monitor computes
MaxRingSize == 3     \* capacities 1..MaxRingSize of a ring buffer under test
MaxPushes == 11      \* ringbuf_push calls on one ring buffer
MaxAppends == 19     \* monitor_append calls on one series

(* Program constants *)

ICMP_ID == 4660                  \* 0x1234
ICMP_ECHO == 8
ICMP_ECHOREPLY == 0
ICMP_TIME_EXCEEDED == 11
SizeofIphdr == 20
SizeofIcmphdr == 8
RecvBufSize == 512
MIN_TTL == 1
MAX_TTL == 255
MIN_PORT == 1
MAX_PORT == 65535
INITIAL_TABLE_CAPACITY == 100
PORT_CLOSED == 0
PORT_OPEN == 1
PORT_FILTERED == 2
InitialRouteCapacity == 16
WINDOW_SIZE == 10
InitialSeriesCapacity == 16
MsPerSec == 1000

----------------------------------------------------------------------------
(* Small helpers *)

Last(s) == s[Len(s)]

Min(a, b) == IF a < b THEN a ELSE b

----------------------------------------------------------------------------
(* tracer/icmp.c *)

\* Variant: the word is read in network byte order
Word16_NetworkOrder(buf, i) == 256 * buf[i + 1] + buf[i + 2]

\* The 16-bit word at byte offset i (0-based) of buf, as a little-endian
\* host reads it through a uint16_t pointer.
Word16(buf, i) == buf[i + 1] + 256 * buf[i + 2]

RECURSIVE SumWords(_, _, _, _)
\* icmp.c:25-35: add the 16-bit words, then the odd trailing byte, into a
\* uint32_t. A buffer of fewer than 2^16 bytes cannot wrap the 32-bit sum, so
\* the sum is kept exact.
SumWords(buf, i, len, sum) ==
    IF len > 1 THEN SumWords(buf, i + 2, len - 2, sum + Word16(buf, i))
    ELSE IF len = 1 THEN sum + buf[i + 1]
    ELSE sum

RECURSIVE FoldCarry(_)
\* icmp.c:38-40
FoldCarry(sum) ==
    IF sum \div 65536 # 0 THEN FoldCarry((sum % 65536) + (sum \div 65536))
    ELSE sum

\* Variant: the odd trailing byte is left out of the sum
icmp_checksum_EvenOnly(buf, len) ==
    65535 - (FoldCarry(SumWords(buf, 0, len - (len % 2), 0)) % 65536)

\* icmp.c:20-44; (uint16_t)(~sum) is 0xFFFF minus the low 16 bits of sum
icmp_checksum(buf, len) ==
    65535 - (FoldCarry(SumWords(buf, 0, len, 0)) % 65536)

\* Variant: the checksum field is not zero while the checksum is computed
\* (icmp.c:67 left out, the field holding a stale value)
EchoBytes_StaleChecksum(id, seq, payload) ==
    << ICMP_ECHO, 0, 1, 0,
       (id % 65536) \div 256, id % 256,
       (seq % 65536) \div 256, seq % 256 >> \o payload

\* The bytes icmp_build_echo leaves in out[0 .. total_len-1] before the
\* checksum is stored (icmp.c:52-69): header with htons(id), htons(seq) and a
\* zero checksum field, followed by the payload.
EchoBytes(id, seq, payload) ==
    << ICMP_ECHO, 0, 0, 0,
       (id % 65536) \div 256, id % 256,
       (seq % 65536) \div 256, seq % 256 >> \o payload

\* A pointer argument: NULL, or the bytes it points to
NullPtr == [null |-> TRUE, bytes |-> <<>>]

Ptr(b) == [null |-> FALSE, bytes |-> b]

\* Variant: the checksum is stored in network byte order, as if through htons
icmp_build_echo_SwappedChecksum(id, seq, payload, payload_len, out_buf, len_null) ==
    IF out_buf.null \/ len_null
    THEN [ret |-> -1, pkt |-> <<>>, out_len |-> 0, written |-> 0]
    ELSE LET total_len == SizeofIcmphdr + payload_len
             copied == payload_len > 0 /\ ~payload.null
             tail == IF copied THEN SubSeq(payload.bytes, 1, payload_len)
                     ELSE SubSeq(out_buf.bytes, SizeofIcmphdr + 1, total_len)
             zeroed == EchoBytes(id, seq, tail)
             csum == icmp_checksum(zeroed, total_len)
         IN [ret |-> 0,
             pkt |-> [i \in 1..total_len |->
                        IF i = 3 THEN csum \div 256
                        ELSE IF i = 4 THEN csum % 256
                        ELSE zeroed[i]],
             out_len |-> total_len,
             written |-> IF copied THEN total_len ELSE SizeofIcmphdr]

\* icmp.c:46-74. payload and out_buf (the argument out) are pointers;
\* out_buf.bytes is what the caller's buffer holds before the call; len_null
\* says whether out_len is NULL. The
\* payload is copied only when payload_len > 0 and payload is not NULL
\* (icmp.c:62-64): otherwise out[8 .. total_len-1] keeps the bytes the buffer
\* held. The result is the return value, out[0 .. *out_len-1] after the call,
\* *out_len, and the number of bytes the function stored.
icmp_build_echo(id, seq, payload, payload_len, out_buf, len_null) ==
    IF out_buf.null \/ len_null
    THEN [ret |-> -1, pkt |-> <<>>, out_len |-> 0, written |-> 0]
    ELSE LET total_len == SizeofIcmphdr + payload_len
             copied == payload_len > 0 /\ ~payload.null
             tail == IF copied THEN SubSeq(payload.bytes, 1, payload_len)
                     ELSE SubSeq(out_buf.bytes, SizeofIcmphdr + 1, total_len)
             zeroed == EchoBytes(id, seq, tail)
             csum == icmp_checksum(zeroed, total_len)
         IN [ret |-> 0,
             pkt |-> [i \in 1..total_len |->
                        IF i = 3 THEN csum % 256
                        ELSE IF i = 4 THEN csum \div 256
                        ELSE zeroed[i]],
             out_len |-> total_len,
             written |-> IF copied THEN total_len ELSE SizeofIcmphdr]

\* Variant: the header-length field is taken to count bytes, not 32-bit words
icmp_parse_response_LengthInBytes(buf, len) ==
    IF len < SizeofIphdr THEN [ret |-> -1, out_type |-> -1]
    ELSE LET iphdr_len == buf[1] % 16
         IN IF len < iphdr_len + SizeofIcmphdr THEN [ret |-> -1, out_type |-> -1]
            ELSE [ret |-> 0, out_type |-> buf[iphdr_len + 1]]

\* Variant: the first length check asks for an ICMP header, not an IP header
icmp_parse_response_ShortMinimum(buf, len) ==
    IF len < SizeofIcmphdr THEN [ret |-> -1, out_type |-> -1]
    ELSE LET iphdr_len == (buf[1] % 16) * 4
         IN IF len < iphdr_len + SizeofIcmphdr THEN [ret |-> -1, out_type |-> -1]
            ELSE [ret |-> 0, out_type |-> buf[iphdr_len + 1]]

\* Variant: *out_type is not written when parsing fails; it keeps the 0 that
\* tracer_run initialised it with (tracer.c:149)
icmp_parse_response_LeavesType(buf, len) ==
    IF len < SizeofIphdr THEN [ret |-> -1, out_type |-> 0]
    ELSE LET iphdr_len == (buf[1] % 16) * 4
         IN IF len < iphdr_len + SizeofIcmphdr THEN [ret |-> -1, out_type |-> 0]
            ELSE [ret |-> 0, out_type |-> buf[iphdr_len + 1]]

\* icmp.c:76-108 for a non-NULL packet and out_type: the return value and the
\* value stored in *out_type. ihl is the low nibble of the first byte.
icmp_parse_response(buf, len) ==
    IF len < SizeofIphdr THEN [ret |-> -1, out_type |-> -1]
    ELSE LET iphdr_len == (buf[1] % 16) * 4
         IN IF len < iphdr_len + SizeofIcmphdr THEN [ret |-> -1, out_type |-> -1]
            ELSE [ret |-> 0, out_type |-> buf[iphdr_len + 1]]

\* Variant: the second length check asks for the IP header only
icmp_parse_reads_NoIcmpHeader(buf, len) ==
    IF len < SizeofIphdr THEN {}
    ELSE LET iphdr_len == (buf[1] % 16) * 4
         IN IF len < iphdr_len THEN {0}
            ELSE {0, iphdr_len}

\* icmp.c:83-107: the offsets of the bytes of the buffer that
\* icmp_parse_response reads: iph->ihl in the first byte once the buffer is
\* known to hold 20 bytes, icmph->type once it is known to hold
\* iphdr_len + 8 bytes.
icmp_parse_reads(buf, len) ==
    IF len < SizeofIphdr THEN {}
    ELSE LET iphdr_len == (buf[1] % 16) * 4
         IN IF len < iphdr_len + SizeofIcmphdr THEN {0}
            ELSE {0, iphdr_len}

----------------------------------------------------------------------------
(* The network seen by the raw socket *)

\* An IPv4 datagram of len bytes with header length ihl (in words) whose byte
\* at offset ihl*4, if it has one, is t.
MkPacket(ihl, t, len) ==
    [i \in 1..len |-> IF i = 1 THEN 64 + ihl
                      ELSE IF i = ihl * 4 + 1 THEN t
                      ELSE 0]

RouterAddr == <<10, 0, 0, 1>>
TargetAddr == <<192, 0, 2, 9>>

\* What recvfrom can find in the queue: a datagram, or a pending error.
Datagrams ==
    { [kind |-> "dgram", src |-> RouterAddr, data |-> MkPacket(5, ICMP_TIME_EXCEEDED, 56)],
      [kind |-> "dgram", src |-> TargetAddr, data |-> MkPacket(5, ICMP_ECHOREPLY, 28)],
      [kind |-> "dgram", src |-> RouterAddr, data |-> MkPacket(5, ICMP_ECHOREPLY, 12)],
      [kind |-> "dgram", src |-> TargetAddr, data |-> MkPacket(15, ICMP_ECHOREPLY, 28)] }

RecvError == [kind |-> "error", src |-> <<0, 0, 0, 0>>, data |-> <<>>]

QueueItems == Datagrams \cup {RecvError}

\* The Echo Reply of the target to the Echo Request with sequence number k of
\* this trace: 20-byte IP header, then type 0 with the identifier and the
\* sequence number of the request.
EchoReplyTo(k) ==
    [MkPacket(5, ICMP_ECHOREPLY, 28) EXCEPT
        ![25] = ICMP_ID \div 256, ![26] = ICMP_ID % 256,
        ![27] = k \div 256, ![28] = k % 256]

\* The Time Exceeded message of a router for that request: 20-byte IP
\* header, 8-byte ICMP header, then the IP header and the first 8 bytes of
\* the datagram that expired.
TimeExceededFor(k) ==
    [MkPacket(5, ICMP_TIME_EXCEEDED, 56) EXCEPT
        ![29] = 69, ![49] = ICMP_ECHO,
        ![53] = ICMP_ID \div 256, ![54] = ICMP_ID % 256,
        ![55] = k \div 256, ![56] = k % 256]

\* What the raw socket can receive while the probe with sequence number k is
\* out: the answers to that probe, a late Echo Reply to the probe before it,
\* and ICMP traffic of the host that has nothing to do with the trace
\* (QueueItems; a raw ICMP socket is handed every ICMP datagram).
Arrivals(k) ==
    QueueItems
    \cup { [kind |-> "dgram", src |-> RouterAddr, data |-> TimeExceededFor(k)],
           [kind |-> "dgram", src |-> TargetAddr, data |-> EchoReplyTo(k)] }
    \cup { [kind |-> "dgram", src |-> TargetAddr, data |-> EchoReplyTo(j)] :
             j \in {k - 1} \cap (cfg.ttl_start..MAX_TTL) }

\* now_ms() is gettimeofday(): between two readings the wall clock advances,
\* or is set back (by one millisecond in the model).
ClockSteps == {-1} \cup (0..MaxElapsed)

\* inet_ntop(AF_INET, ...): dotted-quad text of a 4-byte address
inet_ntop(a) ==
    ToString(a[1]) \o "." \o ToString(a[2]) \o "." \o ToString(a[3]) \o "." \o ToString(a[4])

----------------------------------------------------------------------------
(* net.c *)

\* A sockaddr_in for address a (4 bytes) with its length
SockAddr(a) == [addr |-> a, len |-> 16]

\* The caller's sockaddr_storage and socklen_t before they are written
Unresolved == [addr |-> <<>>, len |-> 0]

\* Variant: the status of getaddrinfo is ignored
net_resolve_IgnoresStatus(status, result, target) ==
    [ret |-> 0, target |-> target]

\* Variant: the list is walked to its end and the last candidate is copied
net_resolve_LastCandidate(status, result, target) ==
    IF status # 0 THEN [ret |-> -1, target |-> target]
    ELSE [ret |-> 0, target |-> result[Len(result)]]

\* net.c:94-131: status is what getaddrinfo returned and result the list it
\* produced (not empty when status is 0); target is what *out and *outlen
\* hold before the call. The result is the return value and what *out and
\* *outlen hold after it.
net_resolve(status, result, target) ==
    IF status # 0 THEN [ret |-> -1, target |-> target]
    ELSE [ret |-> 0, target |-> result[1]]

\* net.c:289-305: err is the errno of socket(), "OK" when it succeeded.
net_icmp_raw_socket(err) == IF err # "OK" THEN -1 ELSE 3

\* net.c:259-270: the socket after setsockopt(IP_TTL); ok is whether the
\* kernel accepted the option.
net_set_ttl(s, t, ok) == IF ok THEN [s EXCEPT !.ip_ttl = t] ELSE s

\* Linux refuses an IP_TTL outside 1..255.
TtlAccepted(t, ok) == ok /\ t >= MIN_TTL /\ t <= MAX_TTL

----------------------------------------------------------------------------
(* tracer.c *)

EmptyRoute == [rows |-> <<>>, len |-> 0, cap |-> 0, null |-> TRUE]

\* tracer.c:39-48. alloc_ok is whether realloc succeeds when it is called.
\* null = TRUE in the result with len = cap means that rows is NULL when
\* rows[len] is written.
tracer_append(route, h, alloc_ok) ==
    IF route.len = route.cap
    THEN LET newcap == IF route.cap # 0 THEN route.cap * 2 ELSE InitialRouteCapacity
         IN IF alloc_ok
            THEN [rows |-> Append(route.rows, h), len |-> route.len + 1,
                  cap |-> newcap, null |-> FALSE]
            ELSE [rows |-> <<>>, len |-> route.len, cap |-> newcap, null |-> TRUE]
    ELSE [route EXCEPT !.rows = Append(route.rows, h), !.len = route.len + 1]

\* Variant: the rtt of a timed-out hop left at the 0 of the memset
TimeoutHop_ZeroRtt(t) ==
    [hop |-> t, host |-> "?", ip |-> "*", rtt_ms |-> 0, timeout |-> TRUE]

\* tracer.c:114-123 and 137-140
TimeoutHop(t) ==
    [hop |-> t, host |-> "?", ip |-> "*", rtt_ms |-> -1, timeout |-> TRUE]

\* Variant: the hop number is taken after the loop variable was incremented
ReplyHop_NextHop(t, src, tend, ts) ==
    [hop |-> t + 1, host |-> inet_ntop(src), ip |-> inet_ntop(src),
     rtt_ms |-> tend - ts, timeout |-> FALSE]

\* tracer.c:114-116, 146, 152-154
ReplyHop(t, src, tend, ts) ==
    [hop |-> t, host |-> inet_ntop(src), ip |-> inet_ntop(src),
     rtt_ms |-> tend - ts, timeout |-> FALSE]

\* Variants of the stop test: stop on Time-Exceeded instead of Echo-Reply;
\* stop on any reply that parsed.
DestinationReached_OnTimeExceeded(icmp_type) == icmp_type = ICMP_TIME_EXCEEDED

DestinationReached_OnAnyReply(icmp_type) == icmp_type >= 0

\* tracer.c:159
DestinationReached(icmp_type) == icmp_type = ICMP_ECHOREPLY

\* Variant: every probe carries the constant ICMP_SEQ of tracer.c:31
ProbeSeq_Constant(t) == 1

\* tracer.c:81: the sequence number handed to icmp_build_echo is the TTL
ProbeSeq(t) == t

\* Variant: the result of sendto is not looked at
SendtoFailed_Never(r) == FALSE

\* tracer.c:91
SendtoFailed(r) == r < 0

\* Variant: the result of recvfrom is not looked at
RecvFailed_Never(n) == FALSE

\* tracer.c:135
RecvFailed(n) == n < 0

\* Variant: the descriptor is not closed
CloseSock_Forgotten(s) == s

\* tracer.c:83, 93, 164: close(sockfd)
CloseSock(s) == [s EXCEPT !.state = "closed", !.closes = s.closes + 1]

\* tracer.c:50-64: memset(out), net_resolve
TracerResolve ==
    /\ t_pc = "resolve"
    /\ out' = EmptyRoute
    /\ \E status \in {0, -2} :
         /\ t_env' = [t_env EXCEPT !.resolver = IF status = 0 THEN "OK" ELSE "failed"]
         /\ IF net_resolve(status, <<SockAddr(TargetAddr)>>, Unresolved).ret # 0
            THEN t_pc' = "done" /\ t_ret' = -1
            ELSE t_pc' = "socket" /\ t_ret' = t_ret
    /\ UNCHANGED <<cfg, ttl, sockfd, sock, tstart, clock, sel, rxq, sent,
                   t_types, t_calls, t_freed, svars, kvars, mvars>>

\* tracer.c:66-73: net_icmp_raw_socket, loop initialisation
TracerRawSocket ==
    /\ t_pc = "socket"
    /\ \E err \in {"OK", "EPERM", "EMFILE"} :
         /\ t_env' = [t_env EXCEPT !.socket = err]
         /\ sock' = IF err = "OK"
                    THEN [sock EXCEPT !.state = "open", !.opens = sock.opens + 1]
                    ELSE sock
         /\ sockfd' = net_icmp_raw_socket(err)
         /\ IF sockfd' < 0
            THEN t_pc' = "done" /\ t_ret' = -1 /\ ttl' = ttl
            ELSE /\ ttl' = cfg.ttl_start
                 /\ t_pc' = "loop" /\ t_ret' = t_ret
    /\ UNCHANGED <<cfg, out, tstart, clock, sel, rxq, sent, t_types, t_calls, t_freed, svars, kvars, mvars>>

\* tracer.c:73-95: one pass from the loop test to sendto
TracerProbe ==
    /\ t_pc = "loop"
    /\ ttl <= cfg.ttl_max
    /\ \E ttl_ok \in BOOLEAN, send_ok \in BOOLEAN :
         LET s1 == net_set_ttl(sock, ttl, TtlAccepted(ttl, ttl_ok))
             b == icmp_build_echo(ICMP_ID, ProbeSeq(ttl), NullPtr, 0, Ptr(<<>>), FALSE)
             r == IF send_ok THEN b.out_len ELSE -1     \* result of sendto
         IN /\ t_calls' = t_calls + 1
            /\ IF b.ret < 0
               THEN /\ sock' = CloseSock(s1)
                    /\ t_pc' = "done" /\ t_ret' = -1
                    /\ UNCHANGED <<tstart, sent>>
               ELSE /\ tstart' = clock
                    /\ sent' = Append(sent, [hop |-> ttl, pkt |-> b.pkt,
                                             len |-> b.out_len,
                                             ip_ttl |-> s1.ip_ttl,
                                             sock |-> s1.state,
                                             ok |-> send_ok])
                    /\ IF SendtoFailed(r)
                       THEN /\ sock' = CloseSock(s1)
                            /\ t_pc' = "done" /\ t_ret' = -1
                       ELSE /\ sock' = s1
                            /\ t_pc' = "select" /\ t_ret' = t_ret
    /\ UNCHANGED <<cfg, out, ttl, sockfd, clock, sel, rxq, t_env, t_types, t_freed, svars, kvars, mvars>>

\* tracer.c:111-127: select; on a timeout the hop is appended and the loop
\* continues. Otherwise tracer_run goes on to recvfrom.
TracerSelect ==
    /\ t_pc = "select"
    /\ \E r \in {0, 1, -1}, alloc_ok \in BOOLEAN :
         /\ sel' = r
         /\ IF r = 0
            THEN LET o == tracer_append(out, TimeoutHop(ttl), alloc_ok)
                 IN /\ out' = o
                    /\ rxq' = rxq
                    /\ IF o.null
                       THEN t_pc' = "crashed" /\ UNCHANGED <<ttl, t_types>>
                       ELSE /\ t_pc' = "loop"
                            /\ ttl' = ttl + 1
                            /\ t_types' = Append(t_types, [replied |-> FALSE, type |-> -1,
                                                             dgram |-> RecvError])
            ELSE /\ t_pc' = "recvfrom"
                 /\ IF r = 1
                    THEN \E q \in Arrivals(ttl) : rxq' = <<q>>
                    ELSE rxq' = <<>>
                 /\ UNCHANGED <<out, ttl, t_types>>
    /\ UNCHANGED <<cfg, t_ret, sockfd, sock, tstart, clock, sent, t_env,
                   t_calls, t_freed, svars, kvars, mvars>>

\* A datagram or an error reaches the socket while tracer_run is blocked in
\* recvfrom.
NetDeliver ==
    /\ t_pc = "recvfrom"
    /\ rxq = <<>>
    /\ \E q \in Arrivals(ttl) : rxq' = <<q>>
    /\ UNCHANGED <<cfg, t_pc, t_ret, out, ttl, sockfd, sock, tstart, clock, sel,
                   sent, t_env, t_types, t_calls, t_freed, svars, kvars, mvars>>

\* tracer.c:130-164: recvfrom returns; the hop is appended; the loop
\* continues, or breaks and tracer_run closes the socket and returns 0.
TracerRecvfrom ==
    /\ t_pc = "recvfrom"
    /\ rxq # <<>>
    /\ rxq' = <<>>
    /\ \E d \in ClockSteps, alloc_ok \in BOOLEAN :
         LET q == rxq[1]
             n == IF q.kind = "error" THEN -1 ELSE Min(Len(q.data), RecvBufSize)
             tend == clock + d
             parsed == icmp_parse_response(q.data, n)
             h == IF RecvFailed(n) THEN TimeoutHop(ttl)
                  ELSE ReplyHop(ttl, q.src, tend, tstart)
             o == tracer_append(out, h, alloc_ok)
         IN /\ clock' = tend
            /\ out' = o
            /\ IF o.null
               THEN t_pc' = "crashed" /\ UNCHANGED <<ttl, t_types, sock, t_ret>>
               ELSE IF RecvFailed(n)
               THEN /\ t_types' = Append(t_types, [replied |-> FALSE, type |-> -1,
                                                             dgram |-> RecvError])
                    /\ ttl' = ttl + 1
                    /\ t_pc' = "loop"
                    /\ UNCHANGED <<sock, t_ret>>
               ELSE /\ t_types' = Append(t_types, [replied |-> TRUE,
                                                    type |-> parsed.out_type,
                                                    dgram |-> q])
                    /\ IF DestinationReached(parsed.out_type)
                       THEN /\ sock' = CloseSock(sock)
                            /\ t_pc' = "done" /\ t_ret' = 0
                            /\ ttl' = ttl
                       ELSE /\ ttl' = ttl + 1
                            /\ t_pc' = "loop"
                            /\ UNCHANGED <<sock, t_ret>>
    /\ UNCHANGED <<cfg, sockfd, tstart, sel, sent, t_env, t_calls, t_freed, svars, kvars, mvars>>

\* tracer.c:73, 164-165: the loop test fails; close and return 0
TracerExhausted ==
    /\ t_pc = "loop"
    /\ ttl > cfg.ttl_max
    /\ sock' = CloseSock(sock)
    /\ t_pc' = "done" /\ t_ret' = 0
    /\ UNCHANGED <<cfg, out, ttl, sockfd, tstart, clock, sel, rxq, sent,
                   t_env, t_types, t_calls, t_freed, svars, kvars, mvars>>

\* tracer/tracer.c:29-31: the body of traceroute_free is (void)t; the
\* TraceRoute is left as it was.
traceroute_free(t) == t

\* The consumer releases the TraceRoute after tracer_run has returned.
TracerRelease ==
    /\ t_pc = "done"
    /\ t_freed = 0
    /\ out' = traceroute_free(out)
    /\ t_freed' = 1
    /\ UNCHANGED <<cfg, t_pc, t_ret, ttl, sockfd, sock, tstart, clock, sel, rxq,
                   sent, t_env, t_types, t_calls, svars, kvars, mvars>>

\* The steps tracer_run takes itself
TracerStep ==
    \/ TracerResolve
    \/ TracerRawSocket
    \/ TracerProbe
    \/ TracerSelect
    \/ TracerRecvfrom
    \/ TracerExhausted

----------------------------------------------------------------------------
(* net.c: net_tcp_connect *)

\* What the system calls of one net_tcp_connect call answer. A field that the
\* call never gets to keeps the value it has in DirectConnect.
DirectConnect ==
    [socket |-> "OK", getfl |-> "OK", setfl |-> "OK", connect |-> "OK",
     select |-> 1, getsockopt |-> "OK", so_error |-> "OK"]

InProgress == [DirectConnect EXCEPT !.connect = "EINPROGRESS"]

ConnEnvs ==
    { [DirectConnect EXCEPT !.socket = "EMFILE"],
      [DirectConnect EXCEPT !.getfl = "EBADF"],
      [DirectConnect EXCEPT !.setfl = "EBADF"] }
    \cup { [DirectConnect EXCEPT !.connect = c] :
             c \in {"OK", "ECONNREFUSED", "ENETUNREACH"} }
    \cup { [InProgress EXCEPT !.select = r] : r \in {0, -1} }
    \cup { [InProgress EXCEPT !.getsockopt = "ENOMEM"] }
    \cup { [InProgress EXCEPT !.so_error = x] :
             x \in {"OK", "ECONNREFUSED", "EHOSTUNREACH"} }

\* Variant: the socket is not closed when the wait times out or fails
\* (close of net.c:214 left out)
net_tcp_connect_LeaksOnTimeout(e) ==
    IF e.socket # "OK"
    THEN [ret |-> -1, errno |-> e.socket, opened |-> 0, closed |-> 0]
    ELSE IF e.getfl # "OK"
    THEN [ret |-> -1, errno |-> e.getfl, opened |-> 1, closed |-> 1]
    ELSE IF e.setfl # "OK"
    THEN [ret |-> -1, errno |-> e.setfl, opened |-> 1, closed |-> 1]
    ELSE IF e.connect = "OK"
    THEN [ret |-> 3, errno |-> "prior", opened |-> 1, closed |-> 0]
    ELSE IF e.connect # "EINPROGRESS"
    THEN [ret |-> -1, errno |-> e.connect, opened |-> 1, closed |-> 1]
    ELSE IF e.select <= 0
    THEN [ret |-> -1, errno |-> IF e.select = 0 THEN "EINPROGRESS" ELSE "EINTR",
          opened |-> 1, closed |-> 0]
    ELSE IF e.getsockopt # "OK"
    THEN [ret |-> -1, errno |-> e.getsockopt, opened |-> 1, closed |-> 1]
    ELSE IF e.so_error # "OK"
    THEN [ret |-> -1, errno |-> "EINPROGRESS", opened |-> 1, closed |-> 1]
    ELSE [ret |-> 3, errno |-> "EINPROGRESS", opened |-> 1, closed |-> 0]

\* Variant: the pending socket error read by getsockopt is not looked at
\* (net.c:222-228 left out)
net_tcp_connect_IgnoresPendingError(e) ==
    IF e.socket # "OK"
    THEN [ret |-> -1, errno |-> e.socket, opened |-> 0, closed |-> 0]
    ELSE IF e.getfl # "OK"
    THEN [ret |-> -1, errno |-> e.getfl, opened |-> 1, closed |-> 1]
    ELSE IF e.setfl # "OK"
    THEN [ret |-> -1, errno |-> e.setfl, opened |-> 1, closed |-> 1]
    ELSE IF e.connect = "OK"
    THEN [ret |-> 3, errno |-> "prior", opened |-> 1, closed |-> 0]
    ELSE IF e.connect # "EINPROGRESS"
    THEN [ret |-> -1, errno |-> e.connect, opened |-> 1, closed |-> 1]
    ELSE IF e.select <= 0
    THEN [ret |-> -1, errno |-> IF e.select = 0 THEN "EINPROGRESS" ELSE "EINTR",
          opened |-> 1, closed |-> 1]
    ELSE IF e.getsockopt # "OK"
    THEN [ret |-> -1, errno |-> e.getsockopt, opened |-> 1, closed |-> 1]
    ELSE [ret |-> 3, errno |-> "EINPROGRESS", opened |-> 1, closed |-> 0]

\* net.c:148-242. The result is the return value, the value of errno the
\* caller finds, and how many sockets the call opened and closed.
net_tcp_connect(e) ==
    IF e.socket # "OK"
    THEN [ret |-> -1, errno |-> e.socket, opened |-> 0, closed |-> 0]
    ELSE IF e.getfl # "OK"
    THEN [ret |-> -1, errno |-> e.getfl, opened |-> 1, closed |-> 1]
    ELSE IF e.setfl # "OK"
    THEN [ret |-> -1, errno |-> e.setfl, opened |-> 1, closed |-> 1]
    ELSE IF e.connect = "OK"
    THEN [ret |-> 3, errno |-> "prior", opened |-> 1, closed |-> 0]
    ELSE IF e.connect # "EINPROGRESS"
    THEN [ret |-> -1, errno |-> e.connect, opened |-> 1, closed |-> 1]
    ELSE IF e.select <= 0
    THEN [ret |-> -1, errno |-> IF e.select = 0 THEN "EINPROGRESS" ELSE "EINTR",
          opened |-> 1, closed |-> 1]
    ELSE IF e.getsockopt # "OK"
    THEN [ret |-> -1, errno |-> e.getsockopt, opened |-> 1, closed |-> 1]
    ELSE IF e.so_error # "OK"
    THEN [ret |-> -1, errno |-> "EINPROGRESS", opened |-> 1, closed |-> 1]
    ELSE [ret |-> 3, errno |-> "EINPROGRESS", opened |-> 1, closed |-> 0]

\* What happened to the connection attempt, in the words of section 4.2 of
\* the specification: the wait elapsed (Filtered), the peer rejected the
\* connection (Refused), the connection was established (Connected), anything
\* else (SystemError).
Outcome(e) ==
    IF e.socket # "OK" \/ e.getfl # "OK" \/ e.setfl # "OK" THEN "SystemError"
    ELSE IF e.connect = "OK" THEN "Connected"
    ELSE IF e.connect = "ECONNREFUSED" THEN "Refused"
    ELSE IF e.connect # "EINPROGRESS" THEN "SystemError"
    ELSE IF e.select = 0 THEN "Filtered"
    ELSE IF e.select < 0 \/ e.getsockopt # "OK" THEN "SystemError"
    ELSE IF e.so_error = "OK" THEN "Connected"
    ELSE IF e.so_error = "ECONNREFUSED" THEN "Refused"
    ELSE "SystemError"

\* TRUE when the outcome came out of the pending socket error or the wait,
\* the cases section 4.2 describes.
AfterWait(e) ==
    /\ e.socket = "OK" /\ e.getfl = "OK" /\ e.setfl = "OK"
    /\ e.connect = "EINPROGRESS"
    /\ e.select = 0 \/ (e.select = 1 /\ e.getsockopt = "OK")

----------------------------------------------------------------------------
(* scanner_run: the source file is not in the tree; taken from section 4.4 *)
(* of the specification and from scanner.h                                 *)

\* Section 4.4: Connected -> OPEN, Refused -> CLOSED, Filtered/SystemError ->
\* FILTERED. All scanner_run has of a failed attempt is the -1 that
\* net_tcp_connect returned and errno.
scan_state(res) ==
    IF res.ret >= 0 THEN PORT_OPEN
    ELSE IF res.errno = "ECONNREFUSED" THEN PORT_CLOSED
    ELSE PORT_FILTERED

\* Section 4.4: elapsed time only on the Connected outcome, otherwise -1
scan_latency(res, elapsed) == IF res.ret >= 0 THEN elapsed ELSE -1

\* Variant: the order of the two ends of the range is not looked at
scan_range_ok_NoOrderCheck(c) ==
    /\ MIN_PORT <= c.ports_from
    /\ c.ports_to <= MAX_PORT

\* Section 4.4: the precondition the component defends itself
scan_range_ok(c) ==
    /\ MIN_PORT <= c.ports_from
    /\ c.ports_from <= c.ports_to
    /\ c.ports_to <= MAX_PORT

\* Section 3, PortScanTable: append-only, capacity doubling
scan_grow(cap) == cap * 2

\* Variant: the row that triggers the growth is lost
scan_append_DropsAtGrowth(t, row) ==
    IF t.len = t.cap
    THEN [t EXCEPT !.cap = scan_grow(t.cap)]
    ELSE [rows |-> Append(t.rows, row), len |-> t.len + 1, cap |-> t.cap]

scan_append(t, row) ==
    [rows |-> Append(t.rows, row), len |-> t.len + 1,
     cap |-> IF t.len = t.cap THEN scan_grow(t.cap) ELSE t.cap]

\* Validation, resolution and the initial table, before any port is probed
ScanStart ==
    /\ s_pc = "start"
    /\ \E status \in {0, -2}, alloc_ok \in BOOLEAN :
         IF \/ ~scan_range_ok(cfg)
            \/ net_resolve(status, <<SockAddr(TargetAddr)>>, Unresolved).ret # 0
            \/ ~alloc_ok
         THEN s_pc' = "done" /\ s_ret' = -1 /\ UNCHANGED <<table, port>>
         ELSE /\ table' = [rows |-> <<>>, len |-> 0, cap |-> INITIAL_TABLE_CAPACITY]
              /\ port' = cfg.ports_from
              /\ s_pc' = "loop" /\ s_ret' = s_ret
    /\ UNCHANGED <<cfg, tvars, kvars, mvars, s_host, s_log, s_fds>>

\* One port: connect attempt, classification, latency, append, close
ScanProbe ==
    /\ s_pc = "loop"
    /\ port <= cfg.ports_to
    /\ \E e \in ConnEnvs, d \in 0..MaxElapsed, alloc_ok \in BOOLEAN :
         /\ s_host.uniform => (e = s_host.e /\ d = 0)
         /\ LET res == net_tcp_connect(e)
                row == [port |-> port, state |-> scan_state(res),
                        latency_ms |-> scan_latency(res, d)]
                handle == IF res.ret >= 0 THEN 1 ELSE 0
            IN /\ s_log' = Append(s_log, [port |-> port, outcome |-> Outcome(e),
                                          waited |-> AfterWait(e),
                                          ret |-> res.ret, errno |-> res.errno])
               /\ s_fds' = [opens |-> s_fds.opens + res.opened,
                            closes |-> s_fds.closes + res.closed + handle]
               /\ IF table.len = table.cap /\ ~alloc_ok
                  THEN s_pc' = "done" /\ s_ret' = -1 /\ UNCHANGED <<table, port>>
                  ELSE /\ table' = scan_append(table, row)
                       /\ port' = port + 1
                       /\ s_pc' = "loop" /\ s_ret' = s_ret
    /\ UNCHANGED <<cfg, tvars, kvars, mvars, s_host>>

\* The range is exhausted: the scan succeeded
ScanFinish ==
    /\ s_pc = "loop"
    /\ port > cfg.ports_to
    /\ s_pc' = "done" /\ s_ret' = 0
    /\ UNCHANGED <<cfg, tvars, kvars, mvars, table, port, s_host, s_log, s_fds>>

----------------------------------------------------------------------------
(* monitor/monitor.c: the rolling-average ring buffer, the sample series   *)
(* and monitor_run                                                         *)

\* Rates are doubles in the source. The model computes with exact fractions
\* n/d in lowest terms, d > 0.
RECURSIVE GCD(_, _)
GCD(a, b) == IF b = 0 THEN a ELSE GCD(b, a % b)

Abs(x) == IF x < 0 THEN -x ELSE x

Rat(n, d) ==
    LET g == GCD(Abs(n), d)
    IN [n |-> n \div g, d |-> d \div g]

Zero == Rat(0, 1)

RatAdd(a, b) == Rat(a.n * b.d + b.n * a.d, a.d * b.d)

RatDivInt(a, k) == Rat(a.n, a.d * k)

NullRing == [null |-> TRUE, values |-> <<>>, size |-> 0, head |-> 0, count |-> 0]

\* monitor.c:49-66. values[i] of the source is values[i + 1] here.
ringbuf_create(size, alloc_ok) ==
    IF ~alloc_ok THEN NullRing
    ELSE [null |-> FALSE, values |-> [i \in 1..size |-> Zero], size |-> size,
          head |-> 0, count |-> 0]

\* Variant: the head is advanced before the value is stored
ringbuf_push_StoresAfterAdvance(rb, value) ==
    [rb EXCEPT !.values[((rb.head + 1) % rb.size) + 1] = value,
               !.head = (rb.head + 1) % rb.size,
               !.count = IF rb.count < rb.size THEN rb.count + 1 ELSE rb.count]

\* monitor.c:72-81
ringbuf_push(rb, value) ==
    [rb EXCEPT !.values[rb.head + 1] = value,
               !.head = (rb.head + 1) % rb.size,
               !.count = IF rb.count < rb.size THEN rb.count + 1 ELSE rb.count]

\* monitor.c:91-94: sum of values[0] .. values[count - 1]
RECURSIVE SumSlots(_, _)
SumSlots(values, count) ==
    IF count = 0 THEN Zero
    ELSE RatAdd(SumSlots(values, count - 1), values[count])

\* Variant: the sum is divided by the capacity
ringbuf_average_DividesBySize(rb) ==
    IF rb.count = 0 THEN Zero
    ELSE RatDivInt(SumSlots(rb.values, rb.count), rb.size)

\* monitor.c:87-97
ringbuf_average(rb) ==
    IF rb.count = 0 THEN Zero
    ELSE RatDivInt(SumSlots(rb.values, rb.count), rb.count)

\* monitor.c:279: the series after memset(out, 0, sizeof(*out))
EmptySeries == [samples |-> <<>>, len |-> 0, cap |-> 0]

\* Variant: the sample is stored although realloc failed
monitor_append_IgnoresFailure(ser, stats, alloc_ok) ==
    IF ser.len = ser.cap
    THEN LET newcap == IF ser.cap # 0 THEN ser.cap * 2 ELSE InitialSeriesCapacity
         IN [samples |-> Append(ser.samples, stats), len |-> ser.len + 1,
             cap |-> IF alloc_ok THEN newcap ELSE ser.cap]
    ELSE [ser EXCEPT !.samples = Append(@, stats), !.len = @ + 1]

\* monitor.c:228-252 for a non-NULL series. samples holds the len elements
\* that have been stored; realloc keeps them.
monitor_append(ser, stats, alloc_ok) ==
    IF ser.len = ser.cap
    THEN LET newcap == IF ser.cap # 0 THEN ser.cap * 2 ELSE InitialSeriesCapacity
         IN IF ~alloc_ok THEN ser
            ELSE [samples |-> Append(ser.samples, stats), len |-> ser.len + 1,
                  cap |-> newcap]
    ELSE [ser EXCEPT !.samples = Append(@, stats), !.len = @ + 1]

\* monitor.c:355-356: (delta * 8.0) / (time_delta_ms / 1000.0)
RateBps(delta, time_delta_ms) == Rat(delta * 8 * MsPerSec, time_delta_ms)

\* monitor.c:367-376 (the interface name is left out)
MkStats(rx, tx, rx_rate, tx_rate, rx_avg, tx_avg) ==
    [rx_bytes |-> rx, tx_bytes |-> tx, rx_rate_bps |-> rx_rate,
     tx_rate_bps |-> tx_rate, rx_avg_bps |-> rx_avg, tx_avg_bps |-> tx_avg]

NoStats == MkStats(0, 0, Zero, Zero, Zero, Zero)

NoArg == [out_null |-> FALSE, iface_null |-> FALSE, interval_ms |-> 0,
          duration_sec |-> 0]

NoLocals == [prev_rx |-> 0, prev_tx |-> 0, prev_time |-> 0, end_time |-> 0,
             curr_time |-> 0]

NoHistory == [requested |-> FALSE, since |-> 0, pushes |-> 0, last |-> "none",
              base |-> [rx |-> 0, tx |-> 0, time |-> 0], pushed |-> <<>>,
              calls |-> 0, offered |-> NoStats, skipped |-> 0, covered |-> 0]

MonitorIdle ==
    /\ m_pc = "idle" /\ m_ret = 1 /\ m_arg = NoArg
    /\ running = 1
    /\ series = EmptySeries
    /\ rx_ring = NullRing /\ tx_ring = NullRing
    /\ m_loc = NoLocals
    /\ m_env = [clock |-> 0, rx |-> 0, tx |-> 0, handler |-> FALSE]
    /\ m_hist = NoHistory

\* monitor.c:273-292: argument check, memset of *out, choice of the interface
MonitorEnter ==
    /\ m_pc = "entry"
    /\ IF m_arg.out_null
       THEN /\ m_pc' = "returned" /\ m_ret' = -1
            /\ UNCHANGED series
       ELSE /\ series' = EmptySeries
            /\ \E found \in BOOLEAN :
                 IF m_arg.iface_null /\ ~found
                 THEN m_pc' = "returned" /\ m_ret' = -1
                 ELSE m_pc' = "signal" /\ UNCHANGED m_ret
    /\ UNCHANGED <<cfg, tvars, svars, kvars, m_arg, running, rx_ring, tx_ring,
                   m_loc, m_env, m_hist>>

\* monitor.c:295-296
MonitorInstall ==
    /\ m_pc = "signal"
    /\ m_env' = [m_env EXCEPT !.handler = TRUE]
    /\ m_pc' = "rings"
    /\ UNCHANGED <<cfg, tvars, svars, kvars, m_arg, m_ret, running, series,
                   rx_ring, tx_ring, m_loc, m_hist>>

\* monitor.c:299-314: the two ring buffers and the baseline reading
MonitorPrepare ==
    /\ m_pc = "rings"
    /\ \E rx_ok \in BOOLEAN, tx_ok \in BOOLEAN, read_ok \in BOOLEAN :
         LET rxr == ringbuf_create(WINDOW_SIZE, rx_ok)
             txr == ringbuf_create(WINDOW_SIZE, tx_ok)
         IN IF rxr.null \/ txr.null \/ ~read_ok
            THEN /\ m_pc' = "returned" /\ m_ret' = -1
                 /\ rx_ring' = NullRing /\ tx_ring' = NullRing
                 /\ UNCHANGED m_loc
            ELSE /\ m_pc' = "arm"
                 /\ rx_ring' = rxr /\ tx_ring' = txr
                 /\ m_loc' = [m_loc EXCEPT !.prev_rx = m_env.rx, !.prev_tx = m_env.tx]
                 /\ UNCHANGED m_ret
    /\ UNCHANGED <<cfg, tvars, svars, kvars, m_arg, running, series, m_env, m_hist>>

\* monitor.c:317-320
MonitorArm ==
    /\ m_pc = "arm"
    /\ running' = 1
    /\ LET start_time == m_env.clock
       IN /\ m_loc' = [m_loc EXCEPT
                 !.end_time = IF m_arg.duration_sec > 0
                              THEN start_time + m_arg.duration_sec * MsPerSec
                              ELSE 0,
                 !.prev_time = start_time]
          /\ m_hist' = [m_hist EXCEPT
                 !.base = [rx |-> m_loc.prev_rx, tx |-> m_loc.prev_tx,
                           time |-> start_time]]
    /\ m_pc' = "loop"
    /\ UNCHANGED <<cfg, tvars, svars, kvars, m_arg, m_ret, series, rx_ring,
                   tx_ring, m_env>>

\* monitor.c:323 and 388-391: the loop test, and the way out
MonitorTest ==
    /\ m_pc = "loop"
    /\ IF running # 0
       THEN /\ m_pc' = "sleep"
            /\ UNCHANGED <<m_ret, rx_ring, tx_ring>>
       ELSE /\ m_pc' = "returned" /\ m_ret' = 0
            /\ rx_ring' = NullRing /\ tx_ring' = NullRing
    /\ UNCHANGED <<cfg, tvars, svars, kvars, m_arg, running, series, m_loc,
                   m_env, m_hist>>

\* The steps of the wall clock during one sleep. The clock stays in
\* 0 .. MaxTime seconds and does not advance once MaxSamples rates have been
\* computed.
SleepSteps ==
    { d \in {-MsPerSec, 0, MsPerSec, 2 * MsPerSec} :
        /\ m_env.clock + d >= 0
        /\ d > 0 => /\ m_env.clock + d <= MaxTime * MsPerSec
                    /\ m_hist.pushes < MaxSamples }

\* monitor.c:325-333 with ms_sleep (timeutil.c:38-53), which fails for a
\* negative interval and resumes after a signal, and ms_now (timeutil.c:24-30)
MonitorSleep ==
    /\ m_pc = "sleep"
    /\ IF m_arg.interval_ms < 0
       THEN /\ m_pc' = "returned" /\ m_ret' = 0
            /\ rx_ring' = NullRing /\ tx_ring' = NullRing
            /\ UNCHANGED <<m_loc, m_env>>
       ELSE \E d \in SleepSteps :
              LET curr_time == m_env.clock + d
              IN /\ m_env' = [m_env EXCEPT !.clock = curr_time]
                 /\ m_loc' = [m_loc EXCEPT !.curr_time = curr_time]
                 /\ IF m_loc.end_time > 0 /\ curr_time >= m_loc.end_time
                    THEN /\ m_pc' = "returned" /\ m_ret' = 0
                         /\ rx_ring' = NullRing /\ tx_ring' = NullRing
                    ELSE /\ m_pc' = "read"
                         /\ UNCHANGED <<m_ret, rx_ring, tx_ring>>
    /\ UNCHANGED <<cfg, tvars, svars, kvars, m_arg, running, series, m_hist>>

\* Variant: a skipped iteration moves the baseline timestamp
SkippedLocals_MovesBaseline(loc) == [loc EXCEPT !.prev_time = loc.curr_time]

\* monitor.c:336-347: the locals after an iteration left by continue
SkippedLocals(loc) == loc

\* The traffic counted by the interface since the previous reading
ByteSteps ==
    { s \in {<<0, 0>>, <<1, 0>>, <<1, 2>>} :
        m_env.rx + s[1] <= MaxBytes /\ m_env.tx + s[2] <= 2 * MaxBytes }

\* monitor.c:336-385: one reading of the counters and, unless it is skipped,
\* one sample
MonitorSample ==
    /\ m_pc = "read"
    /\ \E s \in ByteSteps, read_ok \in BOOLEAN, alloc_ok \in BOOLEAN :
         LET curr_rx == m_env.rx + s[1]
             curr_tx == m_env.tx + s[2]
             time_delta_ms == m_loc.curr_time - m_loc.prev_time
         IN /\ m_env' = [m_env EXCEPT !.rx = curr_rx, !.tx = curr_tx]
            /\ IF ~read_ok
               THEN /\ m_hist' = [m_hist EXCEPT !.last = "readfail",
                                                 !.skipped = Min(@ + 1, 1)]
                    /\ m_loc' = SkippedLocals(m_loc)
                    /\ UNCHANGED <<series, rx_ring, tx_ring>>
               ELSE IF time_delta_ms <= 0
               THEN /\ m_hist' = [m_hist EXCEPT !.last = "nodelta",
                                                 !.skipped = Min(@ + 1, 1)]
                    /\ m_loc' = SkippedLocals(m_loc)
                    /\ UNCHANGED <<series, rx_ring, tx_ring>>
               ELSE LET rx_rate == RateBps(curr_rx - m_loc.prev_rx, time_delta_ms)
                        tx_rate == RateBps(curr_tx - m_loc.prev_tx, time_delta_ms)
                        rxr == ringbuf_push(rx_ring, rx_rate)
                        txr == ringbuf_push(tx_ring, tx_rate)
                        stats == MkStats(curr_rx, curr_tx, rx_rate, tx_rate,
                                         ringbuf_average(rxr), ringbuf_average(txr))
                        grown == monitor_append(series, stats, alloc_ok)
                    IN /\ rx_ring' = rxr /\ tx_ring' = txr
                       /\ series' = grown
                       /\ m_loc' = [m_loc EXCEPT !.prev_rx = curr_rx,
                                                 !.prev_tx = curr_tx,
                                                 !.prev_time = m_loc.curr_time]
                       /\ m_hist' = [m_hist EXCEPT
                              !.last = "sample",
                              !.pushes = @ + 1,
                              !.since = IF grown.len > series.len THEN @ + 1 ELSE @,
                              !.offered = stats,
                              !.skipped = 0,
                              !.covered = m_hist.skipped + 1,
                              !.base = [rx |-> curr_rx, tx |-> curr_tx,
                                        time |-> m_loc.curr_time]]
    /\ m_pc' = "loop"
    /\ UNCHANGED <<cfg, tvars, svars, kvars, m_arg, m_ret, running>>

\* The positions of monitor_run between its entry and its return
MonitorRunning == m_pc \in {"signal", "rings", "arm", "loop", "sleep", "read"}

\* monitor.c:120-122: monitor_stop, called while monitor_run is running
StopCall ==
    /\ MonitorRunning
    /\ running' = 0
    /\ m_hist' = [m_hist EXCEPT !.requested = TRUE,
                                !.since = IF m_hist.requested THEN @ ELSE 0]
    /\ UNCHANGED <<cfg, tvars, svars, kvars, m_pc, m_arg, m_ret, series,
                   rx_ring, tx_ring, m_loc, m_env>>

\* monitor.c:113-116: SIGINT or SIGTERM delivered to the installed handler
StopSignal ==
    /\ MonitorRunning /\ m_env.handler
    /\ running' = 0
    /\ m_hist' = [m_hist EXCEPT !.requested = TRUE,
                                !.since = IF m_hist.requested THEN @ ELSE 0]
    /\ UNCHANGED <<cfg, tvars, svars, kvars, m_pc, m_arg, m_ret, series,
                   rx_ring, tx_ring, m_loc, m_env>>

MonitorStep ==
    \/ MonitorEnter
    \/ MonitorInstall
    \/ MonitorPrepare
    \/ MonitorArm
    \/ MonitorTest
    \/ MonitorSleep
    \/ MonitorSample

TracerIdle ==
    /\ t_pc = "idle" /\ t_ret = 1
    /\ out = EmptyRoute
    /\ ttl = 0 /\ sockfd = -1
    /\ sock = [state |-> "none", ip_ttl |-> 64, opens |-> 0, closes |-> 0]
    /\ tstart = 0 /\ clock = 0 /\ sel = 0 /\ rxq = <<>>
    /\ sent = <<>> /\ t_types = <<>> /\ t_calls = 0 /\ t_freed = 0
    /\ t_env = [resolver |-> "pending", socket |-> "pending"]

\* No call of a function of icmp.c is being observed
NoCall == [op |-> "none", buf |-> <<>>, len |-> 0, id |-> 0, seq |-> 0,
           payload |-> NullPtr, payload_len |-> 0, out |-> NullPtr,
           len_null |-> TRUE]

NoResult == [csum |-> 0, ret |-> 1, pkt |-> <<>>, out_len |-> 0, written |-> 0,
             out_type |-> 0, reads |-> {}]

CodecIdle == k_pc = "idle" /\ k_in = NoCall /\ k_res = NoResult

\* The port ranges of the model: short ranges, valid and invalid, against a
\* host whose ports behave independently, and ranges around the initial table
\* capacity against a host whose ports all behave alike.
MixedRanges ==
    { r \in [ports_from : {0, 1, 2, MAX_PORT}, ports_to : 1..MaxSpan \cup {MAX_PORT, MAX_PORT + 1}] :
        r.ports_to - r.ports_from < MaxSpan }

UniformRanges ==
    [ports_from : {1, 2}, ports_to : {INITIAL_TABLE_CAPACITY, GrowSpan, GrowSpan + 1}]

UniformHosts ==
    { DirectConnect,
      [DirectConnect EXCEPT !.connect = "ECONNREFUSED"],
      [InProgress EXCEPT !.select = 0],
      [InProgress EXCEPT !.so_error = "ECONNREFUSED"] }

InitScan ==
    /\ \/ /\ s_host = [uniform |-> FALSE, e |-> DirectConnect]
          /\ \E r \in MixedRanges :
               cfg = [ttl_start |-> 1, ttl_max |-> 1,
                      ports_from |-> r.ports_from, ports_to |-> r.ports_to]
       \/ /\ s_host \in [uniform : {TRUE}, e : UniformHosts]
          /\ \E r \in UniformRanges :
               cfg = [ttl_start |-> 1, ttl_max |-> 1,
                      ports_from |-> r.ports_from, ports_to |-> r.ports_to]
    /\ s_pc = "start" /\ s_ret = 1
    /\ table = [rows |-> <<>>, len |-> 0, cap |-> 0]
    /\ port = 0 /\ s_log = <<>>
    /\ s_fds = [opens |-> 0, closes |-> 0]
    /\ TracerIdle
    /\ CodecIdle
    /\ MonitorIdle

NextScan ==
    \/ ScanStart
    \/ ScanProbe
    \/ ScanFinish

SpecScan == InitScan /\ [][NextScan]_vars

ScannerIdle ==
    /\ s_pc = "idle" /\ s_ret = 1
    /\ table = [rows |-> <<>>, len |-> 0, cap |-> 0]
    /\ port = 0 /\ s_log = <<>>
    /\ s_host = [uniform |-> FALSE, e |-> DirectConnect]
    /\ s_fds = [opens |-> 0, closes |-> 0]

InitTrace ==
    /\ cfg \in [ttl_start : 1..MaxTtl, ttl_max : 1..MaxTtl,
                ports_from : {MIN_PORT}, ports_to : {MIN_PORT}]
    /\ t_pc = "resolve" /\ t_ret = 1
    /\ out = EmptyRoute
    /\ ttl = 0 /\ sockfd = -1
    /\ sock = [state |-> "none", ip_ttl |-> 64, opens |-> 0, closes |-> 0]
    /\ tstart = 0 /\ clock = 0 /\ sel = 0 /\ rxq = <<>>
    /\ sent = <<>> /\ t_types = <<>> /\ t_calls = 0 /\ t_freed = 0
    /\ t_env = [resolver |-> "pending", socket |-> "pending"]
    /\ ScannerIdle
    /\ CodecIdle
    /\ MonitorIdle

NextTrace ==
    \/ TracerResolve
    \/ TracerRawSocket
    \/ TracerProbe
    \/ TracerSelect
    \/ NetDeliver
    \/ TracerRecvfrom
    \/ TracerExhausted
    \/ TracerRelease

SpecTrace == InitTrace /\ [][NextTrace]_vars

\* tracer_run is scheduled whenever it can take a step; nothing obliges the
\* network to deliver a datagram.
FairSpecTrace == SpecTrace /\ WF_vars(TracerStep)

----------------------------------------------------------------------------
(* One call of icmp_checksum, icmp_build_echo or icmp_parse_response *)

\* Byte values: every bit of a byte is set in one of them and clear in another
ByteVals == {0, 1, 128, 255}

RECURSIVE BytesUpTo(_)
\* All sequences of at most n bytes drawn from ByteVals
BytesUpTo(n) ==
    IF n = 0 THEN {<<>>}
    ELSE LET shorter == BytesUpTo(n - 1)
         IN shorter \cup { Append(b, x) : b \in {c \in shorter : Len(c) = n - 1},
                                          x \in ByteVals }

EchoIds == {0, 1, 255, 256, ICMP_ID, 65535}

EchoSeqs == {0, 1, 255, 256, 65535}

\* Arguments of icmp_checksum: short buffers of every length from 0, and
\* Echo Request messages whose checksum field is zero
ChecksumCalls ==
    { [NoCall EXCEPT !.op = "checksum", !.buf = b, !.len = Len(b)] :
        b \in BytesUpTo(MaxBufLen)
               \cup { EchoBytes(i, q, pl) : i \in {ICMP_ID, 65535}, q \in {1, 65535},
                                            pl \in BytesUpTo(MaxPayload) } }

\* Arguments of icmp_build_echo: a payload and its length, or a NULL payload
\* with any length, in which case the bytes of out behind the header are
\* whatever the caller's buffer held; one call each with out or out_len NULL.
BuildCalls ==
    { [NoCall EXCEPT !.op = "build", !.id = i, !.seq = q, !.payload = Ptr(pl),
                     !.payload_len = Len(pl), !.out = Ptr(<<>>), !.len_null = FALSE] :
        i \in EchoIds, q \in EchoSeqs, pl \in BytesUpTo(MaxPayload) }
    \cup
    { [NoCall EXCEPT !.op = "build", !.id = i, !.seq = q, !.payload = NullPtr,
                     !.payload_len = Len(old),
                     !.out = Ptr(<<170, 170, 170, 170, 170, 170, 170, 170>> \o old),
                     !.len_null = FALSE] :
        i \in {ICMP_ID}, q \in {1, 65535}, old \in BytesUpTo(MaxPayload) }
    \cup
    { [NoCall EXCEPT !.op = "build", !.id = ICMP_ID, !.seq = 1, !.out = o,
                     !.len_null = n] :
        o \in {NullPtr, Ptr(<<>>)}, n \in BOOLEAN }

\* A received buffer of len bytes whose first byte is first, whose byte at
\* offset at, if it has one and it is not the first, is t, and whose other
\* bytes, the ICMP checksum field among them, are fill.
MkBuffer(first, at, t, len, fill) ==
    [i \in 1..len |-> IF i = 1 THEN first
                      ELSE IF i = at + 1 THEN t
                      ELSE fill]

ParseLens == {0, 8, 12, 16, 19, 20, 23, 24, 27, 28, 67, 68, 80}

\* Arguments of icmp_parse_response: IPv4 version nibble 4, every value of the
\* header-length nibble, ICMP types behind the header
ParseCalls ==
    { [NoCall EXCEPT !.op = "parse", !.len = n,
                     !.buf = MkBuffer(64 + h, h * 4, t, n, f)] :
        h \in 0..15, t \in {ICMP_ECHOREPLY, 3, ICMP_ECHO, ICMP_TIME_EXCEEDED, 64, 255},
        n \in ParseLens, f \in {0, 255} }

CodecChecksum ==
    /\ k_pc = "input" /\ k_in.op = "checksum"
    /\ k_res' = [NoResult EXCEPT !.csum = icmp_checksum(k_in.buf, k_in.len)]
    /\ k_pc' = "done"
    /\ UNCHANGED <<cfg, tvars, svars, mvars, k_in>>

CodecBuild ==
    /\ k_pc = "input" /\ k_in.op = "build"
    /\ LET b == icmp_build_echo(k_in.id, k_in.seq, k_in.payload, k_in.payload_len,
                                k_in.out, k_in.len_null)
       IN k_res' = [NoResult EXCEPT !.ret = b.ret, !.pkt = b.pkt,
                                    !.out_len = b.out_len, !.written = b.written]
    /\ k_pc' = "done"
    /\ UNCHANGED <<cfg, tvars, svars, mvars, k_in>>

CodecParse ==
    /\ k_pc = "input" /\ k_in.op = "parse"
    /\ LET r == icmp_parse_response(k_in.buf, k_in.len)
       IN k_res' = [NoResult EXCEPT !.ret = r.ret, !.out_type = r.out_type,
                                    !.reads = icmp_parse_reads(k_in.buf, k_in.len)]
    /\ k_pc' = "done"
    /\ UNCHANGED <<cfg, tvars, svars, mvars, k_in>>

InitCodec ==
    /\ k_pc = "input"
    /\ k_in \in ChecksumCalls \cup BuildCalls \cup ParseCalls
    /\ k_res = NoResult
    /\ cfg = [ttl_start |-> 1, ttl_max |-> 1, ports_from |-> 1, ports_to |-> 1]
    /\ TracerIdle
    /\ ScannerIdle
    /\ MonitorIdle

NextCodec ==
    \/ CodecChecksum
    \/ CodecBuild
    \/ CodecParse

SpecCodec == InitCodec /\ [][NextCodec]_vars

----------------------------------------------------------------------------
(* One call of net_resolve or net_tcp_connect *)

OtherAddr == <<192, 0, 2, 77>>

RECURSIVE CandidateLists(_)
\* The lists of 1..n candidates getaddrinfo can produce
CandidateLists(n) ==
    IF n = 0 THEN {}
    ELSE LET cands == {SockAddr(TargetAddr), SockAddr(RouterAddr), SockAddr(OtherAddr)}
             shorter == CandidateLists(n - 1)
         IN { <<c>> : c \in cands } \cup shorter
            \cup { Append(l, c) : l \in shorter, c \in cands }

NetCall == [op |-> "none", status |-> 0, result |-> <<>>, target |-> Unresolved,
            e |-> DirectConnect]

NetResult == [ret |-> 1, target |-> Unresolved, errno |-> "prior", opened |-> 0,
              closed |-> 0]

\* Arguments of net_resolve and answers of getaddrinfo: success with a list
\* of candidates, EAI_NONAME (-2) and EAI_AGAIN (-3) with no list; the
\* caller's output is unwritten or holds an earlier address.
ResolveCalls ==
    { [NetCall EXCEPT !.op = "resolve", !.status = 0, !.result = l, !.target = o] :
        l \in CandidateLists(MaxCandidates), o \in {Unresolved, SockAddr(OtherAddr)} }
    \cup
    { [NetCall EXCEPT !.op = "resolve", !.status = st, !.target = o] :
        st \in {-2, -3}, o \in {Unresolved, SockAddr(OtherAddr)} }

ConnectCalls == { [NetCall EXCEPT !.op = "connect", !.e = e] : e \in ConnEnvs }

NetResolve ==
    /\ k_pc = "input" /\ k_in.op = "resolve"
    /\ LET r == net_resolve(k_in.status, k_in.result, k_in.target)
       IN k_res' = [NetResult EXCEPT !.ret = r.ret, !.target = r.target]
    /\ k_pc' = "done"
    /\ UNCHANGED <<cfg, tvars, svars, mvars, k_in>>

NetConnect ==
    /\ k_pc = "input" /\ k_in.op = "connect"
    /\ LET r == net_tcp_connect(k_in.e)
       IN k_res' = [NetResult EXCEPT !.ret = r.ret, !.errno = r.errno,
                                     !.opened = r.opened, !.closed = r.closed]
    /\ k_pc' = "done"
    /\ UNCHANGED <<cfg, tvars, svars, mvars, k_in>>

InitNet ==
    /\ k_pc = "input"
    /\ k_in \in ResolveCalls \cup ConnectCalls
    /\ k_res = NetResult
    /\ cfg = [ttl_start |-> 1, ttl_max |-> 1, ports_from |-> 1, ports_to |-> 1]
    /\ TracerIdle
    /\ ScannerIdle
    /\ MonitorIdle

NextNet ==
    \/ NetResolve
    \/ NetConnect

SpecNet == InitNet /\ [][NextNet]_vars

----------------------------------------------------------------------------
(* One call of monitor_run, with stop requests arriving at any moment *)

OthersIdle ==
    /\ cfg = [ttl_start |-> 1, ttl_max |-> 1, ports_from |-> 1, ports_to |-> 1]
    /\ TracerIdle
    /\ ScannerIdle
    /\ CodecIdle

MonitorArgs ==
    { a \in [out_null : BOOLEAN, iface_null : BOOLEAN,
             interval_ms : {-1, MsPerSec}, duration_sec : {0, MaxTime - 1}] :
        a.out_null => (~a.iface_null /\ a.interval_ms = MsPerSec /\ a.duration_sec = 0) }

InitMonitor ==
    /\ m_pc = "entry" /\ m_ret = 1
    /\ m_arg \in MonitorArgs
    /\ running = 1
    /\ series = EmptySeries
    /\ rx_ring = NullRing /\ tx_ring = NullRing
    /\ m_loc = NoLocals
    /\ m_env = [clock |-> MsPerSec, rx |-> 0, tx |-> 0, handler |-> FALSE]
    /\ m_hist = NoHistory
    /\ OthersIdle

NextMonitor ==
    \/ MonitorEnter
    \/ MonitorInstall
    \/ MonitorPrepare
    \/ MonitorArm
    \/ MonitorTest
    \/ MonitorSleep
    \/ MonitorSample
    \/ StopCall
    \/ StopSignal

SpecMonitor == InitMonitor /\ [][NextMonitor]_vars

\* monitor_run is scheduled whenever it can take a step; nothing obliges
\* anybody to ask it to stop.
FairSpecMonitor == SpecMonitor /\ WF_vars(MonitorStep)

----------------------------------------------------------------------------
(* A sequence of ringbuf_push calls on one ring buffer *)

RingSizes == (1..MaxRingSize) \cup {WINDOW_SIZE}

RateVals == {Rat(1, 1), Rat(8, 3)}

RingPush ==
    /\ m_pc = "ring"
    /\ Len(m_hist.pushed) < MaxPushes
    /\ \E v \in RateVals :
         /\ rx_ring' = ringbuf_push(rx_ring, v)
         /\ m_hist' = [m_hist EXCEPT !.pushed = Append(@, v)]
    /\ UNCHANGED <<cfg, tvars, svars, kvars, m_pc, m_arg, m_ret, running,
                   series, tx_ring, m_loc, m_env>>

InitRing ==
    /\ m_pc = "ring" /\ m_ret = 1 /\ m_arg = NoArg
    /\ running = 1
    /\ series = EmptySeries
    /\ rx_ring \in { ringbuf_create(size, TRUE) : size \in RingSizes }
    /\ tx_ring = NullRing
    /\ m_loc = NoLocals
    /\ m_env = [clock |-> 0, rx |-> 0, tx |-> 0, handler |-> FALSE]
    /\ m_hist = NoHistory
    /\ OthersIdle

NextRing == RingPush

SpecRing == InitRing /\ [][NextRing]_vars

----------------------------------------------------------------------------
(* A sequence of monitor_append calls on one series *)

\* The n-th sample offered
NthStats(n) == MkStats(n, 2 * n, Zero, Zero, Zero, Zero)

SeriesAppend ==
    /\ m_pc = "series"
    /\ m_hist.calls < MaxAppends
    /\ \E alloc_ok \in BOOLEAN :
         LET stats == NthStats(m_hist.calls + 1)
         IN /\ series' = monitor_append(series, stats, alloc_ok)
            /\ m_hist' = [m_hist EXCEPT
                   !.calls = @ + 1,
                   !.offered = stats,
                   !.last = IF series.len = series.cap /\ ~alloc_ok
                            THEN "dropped" ELSE "stored"]
    /\ UNCHANGED <<cfg, tvars, svars, kvars, m_pc, m_arg, m_ret, running,
                   rx_ring, tx_ring, m_loc, m_env>>

InitSeries ==
    /\ m_pc = "series" /\ m_ret = 1 /\ m_arg = NoArg
    /\ running = 1
    /\ series = EmptySeries
    /\ rx_ring = NullRing /\ tx_ring = NullRing
    /\ m_loc = NoLocals
    /\ m_env = [clock |-> 0, rx |-> 0, tx |-> 0, handler |-> FALSE]
    /\ m_hist = NoHistory
    /\ OthersIdle

NextSeries == SeriesAppend

SpecSeries == InitSeries /\ [][NextSeries]_vars

----------------------------------------------------------------------------
(* Properties of tracer_run (SpecTrace, FairSpecTrace) *)

Returned(r) == t_pc = "done" /\ t_ret = r

ValidTtlRange == MIN_TTL <= cfg.ttl_start /\ cfg.ttl_start <= cfg.ttl_max /\ cfg.ttl_max <= MAX_TTL

IsEchoReply(x) == x.replied /\ x.type = ICMP_ECHOREPLY

\* C1: for a valid TTL range [a,b], when tracer_run has returned 0 the hop
\* list has at most b-a+1 hops, numbered a, a+1, ... without gap or repeat,
\* and a hop whose reply was an Echo-Reply is the last of the list.
C1_HopListShape ==
    (Returned(0) /\ ValidTtlRange) =>
        /\ out.len <= cfg.ttl_max - cfg.ttl_start + 1
        /\ Len(out.rows) = out.len
        /\ Len(t_types) = out.len
        /\ \A i \in 1..out.len : out.rows[i].hop = cfg.ttl_start + i - 1
        /\ \A i \in 1..out.len : IsEchoReply(t_types[i]) => i = out.len

\* A run that returned 0 after a Time-Exceeded hop followed by the Echo-Reply
\* hop.
C1_Witness ==
    /\ Returned(0) /\ ValidTtlRange
    /\ out.len = 2
    /\ t_types[1].replied /\ t_types[1].type = ICMP_TIME_EXCEEDED
    /\ IsEchoReply(t_types[2])

\* C2: when tracer_run has returned 0 the last hop is the hop of ttl_max or
\* the first hop whose parsed type is Echo-Reply; no sendto follows an
\* Echo-Reply hop; an Echo-Reply to the first probe gives exactly one hop,
\* not timed out, and ends the run.
C2_StopsExactly ==
    /\ (Returned(0) /\ ValidTtlRange) =>
          /\ out.len >= 1
          /\ \/ Last(out.rows).hop = cfg.ttl_max
             \/ /\ IsEchoReply(t_types[out.len])
                /\ \A i \in 1..(out.len - 1) : ~IsEchoReply(t_types[i])
    /\ \A i \in DOMAIN t_types : IsEchoReply(t_types[i]) => Len(sent) = i
    /\ (t_types # <<>> /\ IsEchoReply(t_types[1])) =>
          /\ Returned(0)
          /\ out.len = 1
          /\ out.rows[1].timeout = FALSE

\* The target answered the first probe of a range with more than one TTL.
C2_Witness ==
    /\ Returned(0)
    /\ cfg.ttl_start < cfg.ttl_max
    /\ out.len = 1
    /\ IsEchoReply(t_types[1])
    /\ out.rows[1].hop = cfg.ttl_start

\* C3: a step in which select returns 0 for TTL k appends exactly the hop
\* {k, timeout, "*", "?", -1}, leaves the return value and the socket alone
\* and moves to the loop test with ttl = k+1, from where the only step, when
\* k+1 <= ttl_max, is the sendto for TTL k+1. (The step in which growing the
\* hop list fails ends the process in tracer_append instead.)
C3_TimeoutNotFatal ==
    [][ /\ (t_pc = "select" /\ t_pc' # "select" /\ sel' = 0 /\ t_pc' # "crashed") =>
            /\ out'.rows = Append(out.rows,
                   [hop |-> ttl, host |-> "?", ip |-> "*", rtt_ms |-> -1, timeout |-> TRUE])
            /\ out'.len = out.len + 1
            /\ t_pc' = "loop"
            /\ ttl' = ttl + 1
            /\ t_ret' = 1
            /\ sock' = sock
        /\ (t_pc = "loop" /\ ttl <= cfg.ttl_max /\ t_pc' # "loop") =>
            /\ Len(sent') = Len(sent) + 1
            /\ Last(sent').hop = ttl
      ]_vars

\* The wait for the first TTL elapsed and the probe for the second TTL is out.
C3_Witness ==
    /\ t_pc = "select"
    /\ Len(sent) = 2
    /\ sel = 0
    /\ out.len = 1
    /\ out.rows[1].timeout
    /\ sent[2].hop = out.rows[1].hop + 1

\* C4: a sendto that fails is the last sendto of the run; tracer_run has
\* returned -1, and the hop list holds the hops of the earlier probes only.
C4_SendFailureFatal ==
    \A i \in DOMAIN sent :
        ~sent[i].ok =>
            /\ i = Len(sent)
            /\ Returned(-1)
            /\ out.len = i - 1
            /\ \A j \in 1..Len(out.rows) : out.rows[j].hop # sent[i].hop

\* sendto failed for the second TTL, after a hop was recorded for the first.
C4_Witness ==
    /\ Len(sent) = 2
    /\ sent[1].ok /\ ~sent[2].ok
    /\ out.len = 1
    /\ t_pc = "done"

\* C5: when resolution or raw-socket creation has failed, tracer_run has
\* returned -1, no TTL was set, no sendto was made, no socket is open and the
\* hop list is empty.
C5_EarlyFailure ==
    (t_env.resolver = "failed" \/ t_env.socket \notin {"pending", "OK"}) =>
        /\ Returned(-1)
        /\ t_calls = 0
        /\ sent = <<>>
        /\ out.len = 0 /\ out.rows = <<>>
        /\ sock.opens = 0

\* Raw-socket creation was refused for lack of privilege.
C5_Witness == t_env.resolver = "OK" /\ t_env.socket = "EPERM" /\ t_pc = "done"

\* C6: once the raw socket has been created it is opened once; it is closed
\* exactly once when tracer_run has returned and not before; every sendto was
\* made on the open socket.
C6_SocketOpenedAndClosedOnce ==
    t_env.socket = "OK" =>
        /\ sock.opens = 1
        /\ t_pc = "done" => (sock.closes = 1 /\ sock.state = "closed")
        /\ t_pc # "done" => (sock.closes = 0 /\ sock.state = "open")
        /\ \A i \in DOMAIN sent : sent[i].sock = "open"

\* The TTL range was exhausted with every hop timed out and the socket closed.
C6_Witness ==
    /\ Returned(0)
    /\ out.len = 2
    /\ out.rows[1].timeout /\ out.rows[2].timeout
    /\ sock.opens = 1 /\ sock.closes = 1

\* C7: every run of tracer_run comes to an end (it returns, or the process
\* dies in tracer_append), whatever the network does.
C7_Terminates == <>(t_pc \in {"done", "crashed"})

----------------------------------------------------------------------------
(* Properties of net_tcp_connect and scanner_run (SpecScan) *)

\* C8: two connect attempts whose outcomes after the wait differ (Filtered,
\* Refused, SystemError, Connected) give different results of
\* net_tcp_connect (return value and errno).
C8_OutcomesDistinguishable ==
    \A i, j \in DOMAIN s_log :
        (s_log[i].waited /\ s_log[j].waited /\ s_log[i].outcome # s_log[j].outcome) =>
            <<s_log[i].ret, s_log[i].errno>> # <<s_log[j].ret, s_log[j].errno>>

\* C9: a scan that returned 0 has exactly ports_to - ports_from + 1 rows,
\* whose ports are ports_from, ports_from + 1, ..., ports_to in this order,
\* and the table has room for them.
C9_OneRowPerPort ==
    (s_pc = "done" /\ s_ret = 0) =>
        /\ table.len = cfg.ports_to - cfg.ports_from + 1
        /\ Len(table.rows) = table.len
        /\ table.len <= table.cap
        /\ \A i \in 1..table.len : table.rows[i].port = cfg.ports_from + i - 1

\* A successful scan of more ports than the initial capacity of the table.
C9_Witness ==
    /\ s_pc = "done" /\ s_ret = 0
    /\ table.len > INITIAL_TABLE_CAPACITY
    /\ table.cap = 2 * INITIAL_TABLE_CAPACITY

\* C10: the state of every row is the image of the outcome of the port's
\* connect attempt: Connected -> OPEN, Refused -> CLOSED, Filtered and
\* SystemError -> FILTERED.
C10_StateFromOutcome ==
    \A i \in 1..Len(table.rows) :
        table.rows[i].state =
            CASE s_log[i].outcome = "Connected" -> PORT_OPEN
              [] s_log[i].outcome = "Refused" -> PORT_CLOSED
              [] OTHER -> PORT_FILTERED

\* C11: a scan whose port range is reversed or leaves [1, 65535] is over as
\* soon as it has started: scanner_run returned failure, no connect attempt
\* was made, no socket was opened and the table has no row.
C11_BadRangeRejected ==
    (s_pc \notin {"idle", "start"} /\
     (cfg.ports_from < 1 \/ cfg.ports_to > 65535 \/ cfg.ports_from > cfg.ports_to)) =>
        /\ s_pc = "done" /\ s_ret = -1
        /\ s_log = <<>>
        /\ s_fds.opens = 0
        /\ table.rows = <<>> /\ table.len = 0

\* A scan of the reversed range 2..1 has returned.
C11_Witness ==
    /\ s_pc = "done" /\ s_ret = -1
    /\ cfg.ports_from = 2 /\ cfg.ports_to = 1
    /\ s_log = <<>>

----------------------------------------------------------------------------
(* Properties of tracer/icmp.c (SpecCodec) *)

\* RFC 1071 on the bytes of a message: the message is cut into 16-bit words,
\* first byte the high one, an odd last byte padded with a zero byte.
NetWord(buf, k) ==
    256 * buf[2 * k + 1] + (IF 2 * k + 2 <= Len(buf) THEN buf[2 * k + 2] ELSE 0)

RECURSIVE NetSum(_, _)
NetSum(buf, n) == IF n = 0 THEN 0 ELSE NetSum(buf, n - 1) + NetWord(buf, n - 1)

\* The one's-complement sum of the words (end-around carry: a sum that is not
\* zero lies in 1..65535), complemented.
Rfc1071(buf) ==
    LET total == NetSum(buf, (Len(buf) + 1) \div 2)
        ones == IF total = 0 THEN 0 ELSE ((total - 1) % 65535) + 1
    IN 65535 - ones

\* The two bytes a little-endian host stores for a uint16_t, and the two bytes
\* of a 16-bit value in network order.
HostBytes(w) == <<w % 256, w \div 256>>

NetBytes(w) == <<w \div 256, w % 256>>

CalledWith(op) == k_pc = "done" /\ k_in.op = op

\* C13: for every buffer, of even, odd or zero length, the value icmp_checksum
\* returns, stored the way the host stores it into the checksum field, is the
\* RFC 1071 checksum of the buffer in network order.
C13_ChecksumIsRfc1071 ==
    CalledWith("checksum") => HostBytes(k_res.csum) = NetBytes(Rfc1071(k_in.buf))

\* A buffer of odd length whose sum has to be folded twice.
C13_Witness ==
    /\ CalledWith("checksum")
    /\ k_in.buf = <<255, 255, 255, 255, 1>>
    /\ k_res.csum = 65534

\* The packet with its checksum field set to zero
ZeroChecksum(pkt) == [pkt EXCEPT ![3] = 0, ![4] = 0]

\* C14: icmp_checksum of the packet icmp_build_echo produced, computed with
\* the checksum field zeroed, is the value the packet carries in that field.
C14_ChecksumRecomputes ==
    (CalledWith("build") /\ k_res.ret = 0) =>
        icmp_checksum(ZeroChecksum(k_res.pkt), k_res.out_len) = Word16(k_res.pkt, 2)

\* An Echo Request with a payload of odd length and a checksum that is not 0.
C14_Witness ==
    /\ CalledWith("build") /\ k_res.ret = 0
    /\ ~k_in.payload.null /\ k_in.payload_len = 1
    /\ Word16(k_res.pkt, 2) # 0

\* buf with bit b (0..7) of its byte at position pos (1-based) inverted
FlipBit(buf, pos, b) ==
    [buf EXCEPT ![pos] = IF (buf[pos] \div (2 ^ b)) % 2 = 1
                         THEN buf[pos] - 2 ^ b
                         ELSE buf[pos] + 2 ^ b]

\* C15: inverting any one bit of the buffer changes icmp_checksum.
C15_BitFlipChangesChecksum ==
    CalledWith("checksum") =>
        \A pos \in 1..k_in.len, b \in 0..7 :
            icmp_checksum(FlipBit(k_in.buf, pos, b), k_in.len) # k_res.csum

\* An Echo Request message of odd length with its checksum field zero.
C15_Witness ==
    /\ CalledWith("checksum")
    /\ k_in.len = SizeofIcmphdr + 1
    /\ k_in.buf[1] = ICMP_ECHO /\ k_in.buf[3] = 0 /\ k_in.buf[4] = 0

\* C16: a call of icmp_build_echo with out and out_len not NULL returns 0,
\* stores 8 + payload_len bytes and sets *out_len to that: type 8, code 0,
\* identifier and sequence number high byte first, then the payload as given;
\* also when payload is NULL and payload_len is more than 0.
C16_BuildWritesWholePacket ==
    (CalledWith("build") /\ ~k_in.out.null /\ ~k_in.len_null) =>
        /\ k_res.ret = 0
        /\ k_res.out_len = 8 + k_in.payload_len
        /\ k_res.written = 8 + k_in.payload_len
        /\ k_res.pkt[1] = 8 /\ k_res.pkt[2] = 0
        /\ 256 * k_res.pkt[5] + k_res.pkt[6] = k_in.id
        /\ 256 * k_res.pkt[7] + k_res.pkt[8] = k_in.seq
        /\ ~k_in.payload.null =>
              SubSeq(k_res.pkt, 9, 8 + k_in.payload_len) = k_in.payload.bytes

\* C17 as stated: a buffer whose header-length field is h and which holds
\* the 8 bytes of an ICMP header behind h*4 bytes is parsed with success, and
\* the type is the byte at offset h*4.
C17_TypeRoundTrip ==
    (CalledWith("parse") /\ k_in.len >= 8 /\
     k_in.len >= (k_in.buf[1] % 16) * 4 + 8) =>
        /\ k_res.ret = 0
        /\ k_res.out_type = k_in.buf[(k_in.buf[1] % 16) * 4 + 1]

\* C17: a buffer of at least 20 bytes whose header-length field is h and
\* which holds the 8 bytes of an ICMP header behind h*4 bytes is parsed with
\* success, and the type is the byte at offset h*4.
C17_TypeRoundTripFullHeader ==
    (CalledWith("parse") /\ k_in.len >= 20 /\
     k_in.len >= (k_in.buf[1] % 16) * 4 + 8) =>
        /\ k_res.ret = 0
        /\ k_res.out_type = k_in.buf[(k_in.buf[1] % 16) * 4 + 1]

\* A Time Exceeded message behind the longest IP header, 60 bytes.
C17_Witness ==
    /\ CalledWith("parse")
    /\ k_in.len = 68 /\ k_in.buf[1] % 16 = 15 /\ k_in.buf[61] = ICMP_TIME_EXCEEDED
    /\ k_res.ret = 0 /\ k_res.out_type = ICMP_TIME_EXCEEDED

\* buf with the checksum field of the ICMP header behind at bytes set to c
WithChecksumField(buf, at, c) == [buf EXCEPT ![at + 3] = c, ![at + 4] = c]

\* C18: icmp_parse_response fails, returning -1 with *out_type = -1, exactly
\* for the buffers of fewer than 20 bytes and of fewer than ihl*4 + 8 bytes;
\* what the checksum field of the ICMP header holds changes nothing.
C18_FailsExactlyWhenTruncated ==
    CalledWith("parse") =>
        IF k_in.len < 20 \/ k_in.len < (k_in.buf[1] % 16) * 4 + 8
        THEN k_res.ret = -1 /\ k_res.out_type = -1
        ELSE /\ k_res.ret = 0
             /\ \A c \in {0, 1, 255} :
                  LET r == icmp_parse_response(
                               WithChecksumField(k_in.buf, (k_in.buf[1] % 16) * 4, c),
                               k_in.len)
                  IN r.ret = k_res.ret /\ r.out_type = k_res.out_type

\* A buffer that holds a 20-byte IP header and one byte less than an ICMP
\* header.
C18_Witness ==
    /\ CalledWith("parse")
    /\ k_in.len = 27 /\ k_in.buf[1] % 16 = 5
    /\ k_res.ret = -1 /\ k_res.out_type = -1

----------------------------------------------------------------------------
(* Further properties of tracer_run (SpecTrace) *)

\* The 16-bit value that the bytes at offsets at, at+1 of a packet carry in
\* network order
NetField(pkt, at) == 256 * pkt[at + 1] + pkt[at + 2]

\* C19: every Echo Request handed to sendto for hop k carries the identifier
\* 0x1234 and the sequence number k, and no two probes of the run carry the
\* same sequence number.
C19_ProbeIdAndSeq ==
    /\ \A i \in DOMAIN sent :
         /\ sent[i].pkt[1] = 8
         /\ NetField(sent[i].pkt, 4) = 4660
         /\ NetField(sent[i].pkt, 6) = sent[i].hop
    /\ \A i, j \in DOMAIN sent :
         i # j => NetField(sent[i].pkt, 6) # NetField(sent[j].pkt, 6)

\* Two probes went out, for hops 1 and 2.
C19_Witness ==
    /\ Len(sent) = 2
    /\ sent[1].ok /\ sent[2].ok
    /\ sent[1].hop = 1 /\ sent[2].hop = 2

\* C20: what net_icmp_raw_socket returns to tracer_run when the socket is
\* refused for lack of privilege differs from what it returns for any other
\* failure of socket().
C20_PermissionDeniedDistinct ==
    (t_pc = "done" /\ t_env.socket = "EPERM") =>
        sockfd # net_icmp_raw_socket("EMFILE")

----------------------------------------------------------------------------
(* Properties of net_resolve and net_tcp_connect (SpecNet) *)

\* C21: net_resolve returns 0 exactly when getaddrinfo returned 0, and then
\* the caller's address and length are those of the first candidate of the
\* list; when getaddrinfo failed it returns -1 and the caller's address and
\* length are what they were before the call.
C21_ResolveFirstCandidate ==
    CalledWith("resolve") =>
        /\ k_res.ret = 0 <=> k_in.status = 0
        /\ k_in.status = 0 =>
              /\ k_res.target.addr = Head(k_in.result).addr
              /\ k_res.target.len = Head(k_in.result).len
        /\ k_in.status # 0 => k_res.ret = -1 /\ k_res.target = k_in.target

\* A list of several candidates whose last differs from its first.
C21_Witness ==
    /\ CalledWith("resolve") /\ k_in.status = 0
    /\ Len(k_in.result) > 1
    /\ Last(k_in.result) # Head(k_in.result)
    /\ k_res.ret = 0 /\ k_res.target = Head(k_in.result)

\* C27: a call of net_tcp_connect that returns failure has closed the socket
\* it created, once, and created none when socket() failed; a call that
\* returns a descriptor has created one socket and not closed it.
C27_ConnectNeverLeaks ==
    CalledWith("connect") =>
        /\ k_res.opened = (IF k_in.e.socket = "OK" THEN 1 ELSE 0)
        /\ k_res.ret < 0 => k_res.closed = k_res.opened
        /\ k_res.ret >= 0 => k_res.opened = 1 /\ k_res.closed = 0

\* The wait for writability timed out: the socket was created and closed.
C27_Witness ==
    /\ CalledWith("connect")
    /\ k_in.e.connect = "EINPROGRESS" /\ k_in.e.select = 0
    /\ k_res.ret = -1 /\ k_res.opened = 1 /\ k_res.closed = 1

\* The connection was established: connect returned 0, or the socket became
\* writable in time and its pending error read as zero.
Established(e) ==
    /\ e.socket = "OK" /\ e.getfl = "OK" /\ e.setfl = "OK"
    /\ \/ e.connect = "OK"
       \/ /\ e.connect = "EINPROGRESS" /\ e.select > 0
          /\ e.getsockopt = "OK" /\ e.so_error = "OK"

\* C28: net_tcp_connect returns a descriptor exactly when the connection was
\* established; a socket that became writable with a pending error is not
\* returned.
C28_HandleIffEstablished ==
    CalledWith("connect") =>
        /\ k_res.ret >= 0 <=> Established(k_in.e)
        /\ (k_in.e.connect = "EINPROGRESS" /\ k_in.e.so_error # "OK") => k_res.ret = -1

\* The socket became writable with ECONNREFUSED pending.
C28_Witness ==
    /\ CalledWith("connect")
    /\ k_in.e.connect = "EINPROGRESS" /\ k_in.e.select = 1
    /\ k_in.e.getsockopt = "OK" /\ k_in.e.so_error = "ECONNREFUSED"
    /\ k_res.ret = -1

----------------------------------------------------------------------------
(* Storage, TTL range and ordering in tracer_run (SpecTrace) *)

\* C22: once the consumer has called traceroute_free on a TraceRoute that
\* holds at least one hop, the rows array is released: rows is NULL and no
\* capacity is held.
C22_ReleaseFreesRows ==
    (t_freed = 1 /\ Len(t_types) >= 1) => (out.null /\ out.rows = <<>>)

\* C23: tracer_run called with ttl_start > ttl_max or with a bound outside
\* [1, 255] returns -1 without having opened a socket or sent a probe.
C23_BadTtlRangeRejected ==
    (t_pc = "done" /\
     (cfg.ttl_start > cfg.ttl_max \/ cfg.ttl_start < 1 \/ cfg.ttl_max > 255)) =>
        /\ t_ret = -1
        /\ sock.opens = 0
        /\ sent = <<>>

RouteCapacities == {0} \cup { InitialRouteCapacity * (2 ^ k) : k \in 0..4 }

\* C25: at every moment, also after a tracer_append whose realloc failed,
\* len <= cap, cap is 0 or 16 times a power of two, rows is storage for cap
\* hops (not NULL unless cap is 0), and the hops appended so far are all in
\* rows, in the order and with the values they were appended with.
C25_RouteWellFormed ==
    /\ out.len <= out.cap
    /\ out.cap \in RouteCapacities
    /\ out.cap > 0 => ~out.null
    /\ Len(out.rows) = out.len
    /\ out.len = Len(t_types)
    /\ \A i \in 1..Len(t_types) :
         /\ out.rows[i].hop = cfg.ttl_start + i - 1
         /\ out.rows[i].timeout = ~t_types[i].replied

\* C26: a probe is handed to sendto only when every earlier probe has its
\* hop record: at most one probe is without a record, none while tracer_run
\* is at the loop test, and the i-th record is that of the i-th probe.
C26_OneProbeInFlight ==
    /\ Len(sent) - Len(t_types) \in {0, 1}
    /\ t_pc = "loop" => Len(sent) = Len(t_types)
    /\ \A i \in 1..Len(t_types) :
         i <= Len(out.rows) => out.rows[i].hop = sent[i].hop

\* Two probes went out and both have their record, the second a reply.
C26_Witness ==
    /\ Len(sent) = 2 /\ Len(out.rows) = 2
    /\ ~out.rows[2].timeout
    /\ out.rows[1].hop = sent[1].hop /\ out.rows[2].hop = sent[2].hop

\* C29: every Echo Request that went out for hop k left a socket whose
\* IP_TTL was k, also when setsockopt(IP_TTL) failed for hop k.
C29_ProbeLeavesWithHopTtl ==
    \A i \in DOMAIN sent : sent[i].ok => sent[i].ip_ttl = sent[i].hop

----------------------------------------------------------------------------
(* Hop records and the datagrams they come from (SpecTrace) *)

\* Dotted-quad text of the two hosts of the model
Dotted(a) ==
    CASE a = RouterAddr -> "10.0.0.1"
      [] a = TargetAddr -> "192.0.2.9"
      [] OTHER -> "0.0.0.0"

\* C24: every hop of the list is either a timeout (timeout, ip "*", host
\* "?", rtt_ms -1) or a reply (no timeout, ip the text of the sender's
\* address, host equal to ip, rtt_ms 0 or more); nothing in between.
C24_HopShapes ==
    \A i \in 1..Len(out.rows) :
        LET h == out.rows[i]
        IN \/ /\ h.timeout
              /\ h.ip = "*" /\ h.host = "?" /\ h.rtt_ms = -1
           \/ /\ ~h.timeout
              /\ t_types[i].replied
              /\ h.ip = Dotted(t_types[i].dgram.src) /\ h.host = h.ip
              /\ h.rtt_ms >= 0

\* The identifier and sequence number of the Echo Request that an ICMP
\* datagram answers (RFC 792): those of an Echo Reply, or those in the
\* datagram quoted by a Time Exceeded message; <<-1, -1>> when there is none.
AnsweredProbe(data) ==
    LET at == (data[1] % 16) * 4
        quoted == at + 8 + (data[at + 9] % 16) * 4
    IN IF Len(data) < at + 8 THEN <<-1, -1>>
       ELSE IF data[at + 1] = ICMP_ECHOREPLY
       THEN <<NetField(data, at + 4), NetField(data, at + 6)>>
       ELSE IF data[at + 1] = ICMP_TIME_EXCEEDED /\ Len(data) >= at + 36
       THEN IF Len(data) >= quoted + 8 /\ data[quoted + 1] = ICMP_ECHO
            THEN <<NetField(data, quoted + 4), NetField(data, quoted + 6)>>
            ELSE <<-1, -1>>
       ELSE <<-1, -1>>

\* C30: the datagram behind every hop that did not time out answers the
\* Echo Request of that hop: identifier 0x1234 and the hop's sequence number.
C30_HopAnswersItsProbe ==
    \A i \in 1..Len(t_types) :
        t_types[i].replied =>
            /\ Len(t_types[i].dgram.data) >= 20
            /\ AnsweredProbe(t_types[i].dgram.data) = <<4660, sent[i].hop>>

----------------------------------------------------------------------------
(* Bad receives in tracer_run (SpecTrace) and further properties of        *)
(* tracer/icmp.c (SpecCodec)                                               *)

TooShort(data) ==
    Len(data) < 20 \/ Len(data) < (data[1] % 16) * 4 + 8

\* C32: when the datagram received for hop k is too short to parse, the type
\* used for the stop test is -1, the hop of k is recorded and tracer_run goes
\* on to k + 1.
C32_ShortDatagramNotFinal ==
    [][ (/\ t_pc = "recvfrom" /\ rxq # <<>> /\ Head(rxq).kind = "dgram"
         /\ TooShort(Head(rxq).data)
         /\ t_pc' \notin {"recvfrom", "crashed"}) =>
            /\ Last(t_types').type = -1
            /\ out'.len = out.len + 1
            /\ Last(out'.rows).hop = ttl /\ ~Last(out'.rows).timeout
            /\ t_pc' = "loop"
            /\ ttl' = ttl + 1
            /\ t_ret' = 1
      ]_vars

\* A 12-byte datagram was recorded as the first hop and the probe for the
\* second TTL is out.
C32_Witness ==
    /\ Len(t_types) = 1 /\ t_types[1].replied
    /\ Len(t_types[1].dgram.data) = 12
    /\ t_types[1].type = -1
    /\ Len(sent) = 2 /\ t_pc = "select"

\* C33: every byte icmp_parse_response reads lies inside the buffer, for
\* every length and every value of the header-length field, and a buffer
\* shorter than 20 bytes is not read at all.
C33_ParseReadsInBounds ==
    CalledWith("parse") =>
        /\ \A o \in k_res.reads : 0 <= o /\ o < k_in.len
        /\ k_in.len < 20 => k_res.reads = {}
        /\ k_res.ret = 0 => k_res.reads = {0, (k_in.buf[1] % 16) * 4}

\* The type byte is the last but seven of a 68-byte buffer with a 60-byte
\* IP header.
C33_Witness ==
    /\ CalledWith("parse")
    /\ k_in.len = 68 /\ k_in.buf[1] % 16 = 15
    /\ k_res.reads = {0, 60}

\* C34: icmp_checksum over the whole packet icmp_build_echo produced, the
\* checksum field left as it is, is 0.
C34_PacketVerifies ==
    (CalledWith("build") /\ k_res.ret = 0) =>
        icmp_checksum(k_res.pkt, k_res.out_len) = 0

\* An Echo Request with a payload of two bytes.
C34_Witness ==
    /\ CalledWith("build") /\ k_res.ret = 0
    /\ ~k_in.payload.null /\ k_in.payload_len = 2
    /\ k_res.out_len = 10

----------------------------------------------------------------------------
(* monitor/monitor.c (SpecMonitor, FairSpecMonitor, SpecRing, SpecSeries) *)

\* C35: a stop request made after monitor_run was entered makes monitor_run
\* return.
C35_StopMakesRunReturn ==
    m_hist.requested ~> (m_pc = "returned")

\* The values pushed last, oldest first
LastPushed(k) ==
    SubSeq(m_hist.pushed, Len(m_hist.pushed) - k + 1, Len(m_hist.pushed))

RECURSIVE SeqSum(_)
SeqSum(q) == IF q = <<>> THEN Zero ELSE RatAdd(Head(q), SeqSum(Tail(q)))

Mean(q) == IF q = <<>> THEN Zero ELSE RatDivInt(SeqSum(q), Len(q))

\* C36: after n pushes ringbuf_average is the mean of the last min(n, size)
\* pushed values, and 0 when nothing was pushed.
C36_AverageIsWindowMean ==
    m_pc = "ring" =>
        /\ ringbuf_average(rx_ring) =
               Mean(LastPushed(Min(Len(m_hist.pushed), rx_ring.size)))
        /\ m_hist.pushed = <<>> => ringbuf_average(rx_ring) = Zero

\* Eleven pushes on a buffer of ten: the first value, which differs from the
\* eleventh, is no longer part of the average.
C36_Witness ==
    /\ m_pc = "ring" /\ rx_ring.size = WINDOW_SIZE
    /\ Len(m_hist.pushed) = WINDOW_SIZE + 1
    /\ m_hist.pushed[1] # m_hist.pushed[WINDOW_SIZE + 1]
    /\ ringbuf_average(rx_ring) # Mean(m_hist.pushed)

\* count, head and the slots of a ring buffer after the pushes of the history
RingShape(rb, pushed) ==
    LET n == Len(pushed)
    IN /\ rb.count = Min(n, rb.size)
       /\ rb.head = n % rb.size
       /\ 0 <= rb.head /\ rb.head < rb.size
       /\ rb.count <= rb.size

\* C37: after n pushes count = min(n, size) and head = n mod size; a push on
\* a full buffer overwrites the oldest stored value and no other.
C37_PushKeepsRingShape ==
    [][ m_pc = "ring" =>
          /\ RingShape(rx_ring', m_hist'.pushed)
          /\ rx_ring.count = rx_ring.size =>
               /\ rx_ring.values[rx_ring.head + 1] = Head(LastPushed(rx_ring.size))
               /\ rx_ring'.values[rx_ring.head + 1] = Last(m_hist'.pushed)
               /\ \A i \in 0..(rx_ring.size - 1) :
                    i # rx_ring.head => rx_ring'.values[i + 1] = rx_ring.values[i + 1]
      ]_vars

\* Five pushes on a buffer of three
C37_Witness ==
    /\ m_pc = "ring" /\ rx_ring.size = 3
    /\ Len(m_hist.pushed) = 5
    /\ rx_ring.head = 2 /\ rx_ring.count = 3
    /\ m_hist.pushed[3] # m_hist.pushed[4]

\* 0, or 16 times a power of two
RECURSIVE SeriesCapacity(_)
SeriesCapacity(c) ==
    \/ c = 0
    \/ c = InitialSeriesCapacity
    \/ c > InitialSeriesCapacity /\ c % 2 = 0 /\ SeriesCapacity(c \div 2)

\* C38: len <= cap and cap is 0 or 16 times a power of two; an append that
\* succeeds stores the sample at index len and leaves the earlier ones; an
\* append that cannot grow the full series changes nothing.
C38_AppendKeepsSeries ==
    [][ m_pc = "series" =>
          /\ series'.len <= series'.cap
          /\ SeriesCapacity(series'.cap)
          /\ Len(series'.samples) = series'.len
          /\ m_hist'.last = "stored" =>
               /\ series'.len = series.len + 1
               /\ series'.samples[series.len + 1] = m_hist'.offered
               /\ SubSeq(series'.samples, 1, series.len) = series.samples
          /\ m_hist'.last = "dropped" =>
               /\ series.len = series.cap
               /\ series' = series
      ]_vars

\* The seventeenth sample was dropped at a full series of sixteen, the
\* eighteenth was stored after the series had grown to thirty-two.
C38_Witness ==
    /\ m_pc = "series"
    /\ series.cap = 2 * InitialSeriesCapacity
    /\ series.len = InitialSeriesCapacity + 1
    /\ series.samples[series.len].rx_bytes = series.len + 1

====
